---------------------------- MODULE Spec2Model ----------------------------
(***************************************************************************)
(* A model of utcp-mcp-gateway: the response filter (src/src/llm-filter.ts), *)
(* the configuration loader (src/src/config.ts) and the gateway server     *)
(* (src/src/server.ts).                                                     *)
(*                                                                         *)
(* Strings are sequences of UTF-16 code units, as String.length counts     *)
(* them.  A printable ASCII unit is written as itself, tab, line feed, form *)
(* feed and carriage return by their escapes, any other unit by its code   *)
(* point ("u622A", "u000B"; the grave accent, which a string of this       *)
(* language cannot hold, is "u0060").                                      *)
(***************************************************************************)
EXTENDS Integers, Sequences, FiniteSets, TLC

VARIABLES
    filterConfig,   \* LlmFilter.filterConfig
    llmClient,      \* LlmFilter.client is non-null
    filterCall,     \* the last call of LlmFilter.filter and what it did
    env,            \* process.env: the variables that are set, and their values
    cfgPhase,       \* where cli.ts main is: "env", "loaded", "validated"
    config,         \* the Config returned by loadConfig
    validation,     \* what validateConfig did: returned or threw, and its warnings
    srvConfig,      \* GatewayServer.config, and whether routerClient was built
    catalog,        \* the tools each provider exposes once its manual is registered
    utcpClient,     \* GatewayServer.utcpClient: 0 for null, else an index of clients
    clients,        \* the CodeModeUtcpClient objects created so far
    capabilitySummary,  \* GatewayServer.capabilitySummary
    toolSummaries,  \* GatewayServer.toolSummaries
    toolFullDefs,   \* GatewayServer.toolFullDefs
    call,           \* the last operation served when calls come one at a time
    callers,        \* the operations in flight when calls overlap
    history,        \* what the callers did to the UTCP clients so far
    process         \* "constructed", "connected" (run() has returned) or "exited"

filterVars == <<filterConfig, llmClient, filterCall>>
configVars == <<env, cfgPhase, config, validation>>

serverVars == <<srvConfig, catalog, utcpClient, clients, capabilitySummary,
                toolSummaries, toolFullDefs, call, callers, history, process>>

vars == <<filterConfig, llmClient, filterCall, env, cfgPhase, config, validation,
          srvConfig, catalog, utcpClient, clients, capabilitySummary,
          toolSummaries, toolFullDefs, call, callers, history, process>>

\* no GatewayServer has been constructed
ServerIdle ==
    /\ srvConfig = << >>
    /\ catalog = << >>
    /\ utcpClient = 0
    /\ clients = << >>
    /\ capabilitySummary = << >>
    /\ toolSummaries = << >>
    /\ toolFullDefs = << >>
    /\ call = << >>
    /\ callers = << >>
    /\ history = << >>
    /\ process = "none"

---------------------------------------------------------------------------
(* Bounds of the model *)

\* longest content handed to the filter
MaxLen == 4
\* largest maxResponseChars
MaxChars == 3
\* largest summarizeThreshold
MaxThreshold == 5
\* the most negative maxResponseChars and summarizeThreshold is -MaxNegative
MaxNegative == 1
\* the indexed providers MCP_1_* .. MCP_<NumIndexed>_* may be set in env
NumIndexed == 2
\* at most this many environment variables are set
MaxEnvVars == 3

---------------------------------------------------------------------------
(* String primitives of the JavaScript runtime *)

Min(a, b) == IF a < b THEN a ELSE b
Max(a, b) == IF a > b THEN a ELSE b

\* String.prototype.slice(start, end): a negative index counts from the end,
\* both are clamped to the string
SliceIndex(i, len) == IF i < 0 THEN Max(len + i, 0) ELSE Min(i, len)

slice(s, start, end) ==
    LET from == SliceIndex(start, Len(s))
        to   == SliceIndex(end, Len(s))
    IN  IF to <= from THEN << >> ELSE SubSeq(s, from + 1, to)

DigitChar == <<"0", "1", "2", "3", "4", "5", "6", "7", "8", "9">>

\* Number-to-string conversion of a non-negative integer ('...' + content.length)
RECURSIVE NumberToString(_)
NumberToString(n) ==
    IF n < 10 THEN <<DigitChar[n + 1]>>
    ELSE NumberToString(n \div 10) \o <<DigitChar[(n % 10) + 1]>>

\* All strings over the alphabet A of length at most n
StringsUpTo(A, n) == UNION { [1..k -> A] : k \in 0..n }

\* A value that may be undefined: a string, a list or a map when defined
Undef == [def |-> FALSE, val |-> << >>]
Def(v) == [def |-> TRUE, val |-> v]

\* JavaScript truthiness of a string that may be undefined
Truthy(o) == o.def /\ o.val # << >>

\* String.prototype.split(sep) for a one-character separator
RECURSIVE split(_, _)
split(s, sep) ==
    IF \A i \in 1..Len(s) : s[i] # sep
    THEN <<s>>
    ELSE LET i == CHOOSE j \in 1..Len(s) :
                      s[j] = sep /\ \A k \in 1..(j - 1) : s[k] # sep
         IN  <<SubSeq(s, 1, i - 1)>> \o split(SubSeq(s, i + 1, Len(s)), sep)

\* list[i] of a JavaScript array (0-based): undefined outside the array
At(list, i) == IF i + 1 \in 1..Len(list) THEN Def(list[i + 1]) ELSE Undef

UpperCase == <<"A", "B", "C", "D", "E", "F", "G", "H", "I", "J", "K", "L", "M",
               "N", "O", "P", "Q", "R", "S", "T", "U", "V", "W", "X", "Y", "Z">>
LowerCase == <<"a", "b", "c", "d", "e", "f", "g", "h", "i", "j", "k", "l", "m",
               "n", "o", "p", "q", "r", "s", "t", "u", "v", "w", "x", "y", "z">>

\* The case mapping of the Unicode Character Database outside ASCII, for the
\* units that are no surrogates: CaseUpper[i] lowercases to CaseLower[i].
\* U+0130, the one unit whose lowercase is two units, is not in the table.
\* The tables are those of Unicode 15.0 with the changes of 16.0 and 17.0:
\* the cased letters, nonspacing marks and modifier letters that were added,
\* U+0295 no longer cased and U+1171E no longer a nonspacing mark.
CaseUpper ==
    << "u00C0", "u00C1", "u00C2", "u00C3", "u00C4", "u00C5", "u00C6", "u00C7",
     "u00C8", "u00C9", "u00CA", "u00CB", "u00CC", "u00CD", "u00CE", "u00CF",
     "u00D0", "u00D1", "u00D2", "u00D3", "u00D4", "u00D5", "u00D6", "u00D8",
     "u00D9", "u00DA", "u00DB", "u00DC", "u00DD", "u00DE", "u0100", "u0102",
     "u0104", "u0106", "u0108", "u010A", "u010C", "u010E", "u0110", "u0112",
     "u0114", "u0116", "u0118", "u011A", "u011C", "u011E", "u0120", "u0122",
     "u0124", "u0126", "u0128", "u012A", "u012C", "u012E", "u0132", "u0134",
     "u0136", "u0139", "u013B", "u013D", "u013F", "u0141", "u0143", "u0145",
     "u0147", "u014A", "u014C", "u014E", "u0150", "u0152", "u0154", "u0156",
     "u0158", "u015A", "u015C", "u015E", "u0160", "u0162", "u0164", "u0166",
     "u0168", "u016A", "u016C", "u016E", "u0170", "u0172", "u0174", "u0176",
     "u0178", "u0179", "u017B", "u017D", "u0181", "u0182", "u0184", "u0186",
     "u0187", "u0189", "u018A", "u018B", "u018E", "u018F", "u0190", "u0191",
     "u0193", "u0194", "u0196", "u0197", "u0198", "u019C", "u019D", "u019F",
     "u01A0", "u01A2", "u01A4", "u01A6", "u01A7", "u01A9", "u01AC", "u01AE",
     "u01AF", "u01B1", "u01B2", "u01B3", "u01B5", "u01B7", "u01B8", "u01BC",
     "u01C4", "u01C5", "u01C7", "u01C8", "u01CA", "u01CB", "u01CD", "u01CF",
     "u01D1", "u01D3", "u01D5", "u01D7", "u01D9", "u01DB", "u01DE", "u01E0",
     "u01E2", "u01E4", "u01E6", "u01E8", "u01EA", "u01EC", "u01EE", "u01F1",
     "u01F2", "u01F4", "u01F6", "u01F7", "u01F8", "u01FA", "u01FC", "u01FE",
     "u0200", "u0202", "u0204", "u0206", "u0208", "u020A", "u020C", "u020E",
     "u0210", "u0212", "u0214", "u0216", "u0218", "u021A", "u021C", "u021E",
     "u0220", "u0222", "u0224", "u0226", "u0228", "u022A", "u022C", "u022E",
     "u0230", "u0232", "u023A", "u023B", "u023D", "u023E", "u0241", "u0243",
     "u0244", "u0245", "u0246", "u0248", "u024A", "u024C", "u024E", "u0370",
     "u0372", "u0376", "u037F", "u0386", "u0388", "u0389", "u038A", "u038C",
     "u038E", "u038F", "u0391", "u0392", "u0393", "u0394", "u0395", "u0396",
     "u0397", "u0398", "u0399", "u039A", "u039B", "u039C", "u039D", "u039E",
     "u039F", "u03A0", "u03A1", "u03A3", "u03A4", "u03A5", "u03A6", "u03A7",
     "u03A8", "u03A9", "u03AA", "u03AB", "u03CF", "u03D8", "u03DA", "u03DC",
     "u03DE", "u03E0", "u03E2", "u03E4", "u03E6", "u03E8", "u03EA", "u03EC",
     "u03EE", "u03F4", "u03F7", "u03F9", "u03FA", "u03FD", "u03FE", "u03FF",
     "u0400", "u0401", "u0402", "u0403", "u0404", "u0405", "u0406", "u0407",
     "u0408", "u0409", "u040A", "u040B", "u040C", "u040D", "u040E", "u040F",
     "u0410", "u0411", "u0412", "u0413", "u0414", "u0415", "u0416", "u0417",
     "u0418", "u0419", "u041A", "u041B", "u041C", "u041D", "u041E", "u041F",
     "u0420", "u0421", "u0422", "u0423", "u0424", "u0425", "u0426", "u0427",
     "u0428", "u0429", "u042A", "u042B", "u042C", "u042D", "u042E", "u042F",
     "u0460", "u0462", "u0464", "u0466", "u0468", "u046A", "u046C", "u046E",
     "u0470", "u0472", "u0474", "u0476", "u0478", "u047A", "u047C", "u047E",
     "u0480", "u048A", "u048C", "u048E", "u0490", "u0492", "u0494", "u0496",
     "u0498", "u049A", "u049C", "u049E", "u04A0", "u04A2", "u04A4", "u04A6",
     "u04A8", "u04AA", "u04AC", "u04AE", "u04B0", "u04B2", "u04B4", "u04B6",
     "u04B8", "u04BA", "u04BC", "u04BE", "u04C0", "u04C1", "u04C3", "u04C5",
     "u04C7", "u04C9", "u04CB", "u04CD", "u04D0", "u04D2", "u04D4", "u04D6",
     "u04D8", "u04DA", "u04DC", "u04DE", "u04E0", "u04E2", "u04E4", "u04E6",
     "u04E8", "u04EA", "u04EC", "u04EE", "u04F0", "u04F2", "u04F4", "u04F6",
     "u04F8", "u04FA", "u04FC", "u04FE", "u0500", "u0502", "u0504", "u0506",
     "u0508", "u050A", "u050C", "u050E", "u0510", "u0512", "u0514", "u0516",
     "u0518", "u051A", "u051C", "u051E", "u0520", "u0522", "u0524", "u0526",
     "u0528", "u052A", "u052C", "u052E", "u0531", "u0532", "u0533", "u0534",
     "u0535", "u0536", "u0537", "u0538", "u0539", "u053A", "u053B", "u053C",
     "u053D", "u053E", "u053F", "u0540", "u0541", "u0542", "u0543", "u0544",
     "u0545", "u0546", "u0547", "u0548", "u0549", "u054A", "u054B", "u054C",
     "u054D", "u054E", "u054F", "u0550", "u0551", "u0552", "u0553", "u0554",
     "u0555", "u0556", "u10A0", "u10A1", "u10A2", "u10A3", "u10A4", "u10A5",
     "u10A6", "u10A7", "u10A8", "u10A9", "u10AA", "u10AB", "u10AC", "u10AD",
     "u10AE", "u10AF", "u10B0", "u10B1", "u10B2", "u10B3", "u10B4", "u10B5",
     "u10B6", "u10B7", "u10B8", "u10B9", "u10BA", "u10BB", "u10BC", "u10BD",
     "u10BE", "u10BF", "u10C0", "u10C1", "u10C2", "u10C3", "u10C4", "u10C5",
     "u10C7", "u10CD", "u13A0", "u13A1", "u13A2", "u13A3", "u13A4", "u13A5",
     "u13A6", "u13A7", "u13A8", "u13A9", "u13AA", "u13AB", "u13AC", "u13AD",
     "u13AE", "u13AF", "u13B0", "u13B1", "u13B2", "u13B3", "u13B4", "u13B5",
     "u13B6", "u13B7", "u13B8", "u13B9", "u13BA", "u13BB", "u13BC", "u13BD",
     "u13BE", "u13BF", "u13C0", "u13C1", "u13C2", "u13C3", "u13C4", "u13C5",
     "u13C6", "u13C7", "u13C8", "u13C9", "u13CA", "u13CB", "u13CC", "u13CD",
     "u13CE", "u13CF", "u13D0", "u13D1", "u13D2", "u13D3", "u13D4", "u13D5",
     "u13D6", "u13D7", "u13D8", "u13D9", "u13DA", "u13DB", "u13DC", "u13DD",
     "u13DE", "u13DF", "u13E0", "u13E1", "u13E2", "u13E3", "u13E4", "u13E5",
     "u13E6", "u13E7", "u13E8", "u13E9", "u13EA", "u13EB", "u13EC", "u13ED",
     "u13EE", "u13EF", "u13F0", "u13F1", "u13F2", "u13F3", "u13F4", "u13F5",
     "u1C89", "u1C90", "u1C91", "u1C92", "u1C93", "u1C94", "u1C95", "u1C96",
     "u1C97", "u1C98", "u1C99", "u1C9A", "u1C9B", "u1C9C", "u1C9D", "u1C9E",
     "u1C9F", "u1CA0", "u1CA1", "u1CA2", "u1CA3", "u1CA4", "u1CA5", "u1CA6",
     "u1CA7", "u1CA8", "u1CA9", "u1CAA", "u1CAB", "u1CAC", "u1CAD", "u1CAE",
     "u1CAF", "u1CB0", "u1CB1", "u1CB2", "u1CB3", "u1CB4", "u1CB5", "u1CB6",
     "u1CB7", "u1CB8", "u1CB9", "u1CBA", "u1CBD", "u1CBE", "u1CBF", "u1E00",
     "u1E02", "u1E04", "u1E06", "u1E08", "u1E0A", "u1E0C", "u1E0E", "u1E10",
     "u1E12", "u1E14", "u1E16", "u1E18", "u1E1A", "u1E1C", "u1E1E", "u1E20",
     "u1E22", "u1E24", "u1E26", "u1E28", "u1E2A", "u1E2C", "u1E2E", "u1E30",
     "u1E32", "u1E34", "u1E36", "u1E38", "u1E3A", "u1E3C", "u1E3E", "u1E40",
     "u1E42", "u1E44", "u1E46", "u1E48", "u1E4A", "u1E4C", "u1E4E", "u1E50",
     "u1E52", "u1E54", "u1E56", "u1E58", "u1E5A", "u1E5C", "u1E5E", "u1E60",
     "u1E62", "u1E64", "u1E66", "u1E68", "u1E6A", "u1E6C", "u1E6E", "u1E70",
     "u1E72", "u1E74", "u1E76", "u1E78", "u1E7A", "u1E7C", "u1E7E", "u1E80",
     "u1E82", "u1E84", "u1E86", "u1E88", "u1E8A", "u1E8C", "u1E8E", "u1E90",
     "u1E92", "u1E94", "u1E9E", "u1EA0", "u1EA2", "u1EA4", "u1EA6", "u1EA8",
     "u1EAA", "u1EAC", "u1EAE", "u1EB0", "u1EB2", "u1EB4", "u1EB6", "u1EB8",
     "u1EBA", "u1EBC", "u1EBE", "u1EC0", "u1EC2", "u1EC4", "u1EC6", "u1EC8",
     "u1ECA", "u1ECC", "u1ECE", "u1ED0", "u1ED2", "u1ED4", "u1ED6", "u1ED8",
     "u1EDA", "u1EDC", "u1EDE", "u1EE0", "u1EE2", "u1EE4", "u1EE6", "u1EE8",
     "u1EEA", "u1EEC", "u1EEE", "u1EF0", "u1EF2", "u1EF4", "u1EF6", "u1EF8",
     "u1EFA", "u1EFC", "u1EFE", "u1F08", "u1F09", "u1F0A", "u1F0B", "u1F0C",
     "u1F0D", "u1F0E", "u1F0F", "u1F18", "u1F19", "u1F1A", "u1F1B", "u1F1C",
     "u1F1D", "u1F28", "u1F29", "u1F2A", "u1F2B", "u1F2C", "u1F2D", "u1F2E",
     "u1F2F", "u1F38", "u1F39", "u1F3A", "u1F3B", "u1F3C", "u1F3D", "u1F3E",
     "u1F3F", "u1F48", "u1F49", "u1F4A", "u1F4B", "u1F4C", "u1F4D", "u1F59",
     "u1F5B", "u1F5D", "u1F5F", "u1F68", "u1F69", "u1F6A", "u1F6B", "u1F6C",
     "u1F6D", "u1F6E", "u1F6F", "u1F88", "u1F89", "u1F8A", "u1F8B", "u1F8C",
     "u1F8D", "u1F8E", "u1F8F", "u1F98", "u1F99", "u1F9A", "u1F9B", "u1F9C",
     "u1F9D", "u1F9E", "u1F9F", "u1FA8", "u1FA9", "u1FAA", "u1FAB", "u1FAC",
     "u1FAD", "u1FAE", "u1FAF", "u1FB8", "u1FB9", "u1FBA", "u1FBB", "u1FBC",
     "u1FC8", "u1FC9", "u1FCA", "u1FCB", "u1FCC", "u1FD8", "u1FD9", "u1FDA",
     "u1FDB", "u1FE8", "u1FE9", "u1FEA", "u1FEB", "u1FEC", "u1FF8", "u1FF9",
     "u1FFA", "u1FFB", "u1FFC", "u2126", "u212A", "u212B", "u2132", "u2160",
     "u2161", "u2162", "u2163", "u2164", "u2165", "u2166", "u2167", "u2168",
     "u2169", "u216A", "u216B", "u216C", "u216D", "u216E", "u216F", "u2183",
     "u24B6", "u24B7", "u24B8", "u24B9", "u24BA", "u24BB", "u24BC", "u24BD",
     "u24BE", "u24BF", "u24C0", "u24C1", "u24C2", "u24C3", "u24C4", "u24C5",
     "u24C6", "u24C7", "u24C8", "u24C9", "u24CA", "u24CB", "u24CC", "u24CD",
     "u24CE", "u24CF", "u2C00", "u2C01", "u2C02", "u2C03", "u2C04", "u2C05",
     "u2C06", "u2C07", "u2C08", "u2C09", "u2C0A", "u2C0B", "u2C0C", "u2C0D",
     "u2C0E", "u2C0F", "u2C10", "u2C11", "u2C12", "u2C13", "u2C14", "u2C15",
     "u2C16", "u2C17", "u2C18", "u2C19", "u2C1A", "u2C1B", "u2C1C", "u2C1D",
     "u2C1E", "u2C1F", "u2C20", "u2C21", "u2C22", "u2C23", "u2C24", "u2C25",
     "u2C26", "u2C27", "u2C28", "u2C29", "u2C2A", "u2C2B", "u2C2C", "u2C2D",
     "u2C2E", "u2C2F", "u2C60", "u2C62", "u2C63", "u2C64", "u2C67", "u2C69",
     "u2C6B", "u2C6D", "u2C6E", "u2C6F", "u2C70", "u2C72", "u2C75", "u2C7E",
     "u2C7F", "u2C80", "u2C82", "u2C84", "u2C86", "u2C88", "u2C8A", "u2C8C",
     "u2C8E", "u2C90", "u2C92", "u2C94", "u2C96", "u2C98", "u2C9A", "u2C9C",
     "u2C9E", "u2CA0", "u2CA2", "u2CA4", "u2CA6", "u2CA8", "u2CAA", "u2CAC",
     "u2CAE", "u2CB0", "u2CB2", "u2CB4", "u2CB6", "u2CB8", "u2CBA", "u2CBC",
     "u2CBE", "u2CC0", "u2CC2", "u2CC4", "u2CC6", "u2CC8", "u2CCA", "u2CCC",
     "u2CCE", "u2CD0", "u2CD2", "u2CD4", "u2CD6", "u2CD8", "u2CDA", "u2CDC",
     "u2CDE", "u2CE0", "u2CE2", "u2CEB", "u2CED", "u2CF2", "uA640", "uA642",
     "uA644", "uA646", "uA648", "uA64A", "uA64C", "uA64E", "uA650", "uA652",
     "uA654", "uA656", "uA658", "uA65A", "uA65C", "uA65E", "uA660", "uA662",
     "uA664", "uA666", "uA668", "uA66A", "uA66C", "uA680", "uA682", "uA684",
     "uA686", "uA688", "uA68A", "uA68C", "uA68E", "uA690", "uA692", "uA694",
     "uA696", "uA698", "uA69A", "uA722", "uA724", "uA726", "uA728", "uA72A",
     "uA72C", "uA72E", "uA732", "uA734", "uA736", "uA738", "uA73A", "uA73C",
     "uA73E", "uA740", "uA742", "uA744", "uA746", "uA748", "uA74A", "uA74C",
     "uA74E", "uA750", "uA752", "uA754", "uA756", "uA758", "uA75A", "uA75C",
     "uA75E", "uA760", "uA762", "uA764", "uA766", "uA768", "uA76A", "uA76C",
     "uA76E", "uA779", "uA77B", "uA77D", "uA77E", "uA780", "uA782", "uA784",
     "uA786", "uA78B", "uA78D", "uA790", "uA792", "uA796", "uA798", "uA79A",
     "uA79C", "uA79E", "uA7A0", "uA7A2", "uA7A4", "uA7A6", "uA7A8", "uA7AA",
     "uA7AB", "uA7AC", "uA7AD", "uA7AE", "uA7B0", "uA7B1", "uA7B2", "uA7B3",
     "uA7B4", "uA7B6", "uA7B8", "uA7BA", "uA7BC", "uA7BE", "uA7C0", "uA7C2",
     "uA7C4", "uA7C5", "uA7C6", "uA7C7", "uA7C9", "uA7CB", "uA7CC", "uA7CE",
     "uA7D0", "uA7D2", "uA7D4", "uA7D6", "uA7D8", "uA7DA", "uA7DC", "uA7F5",
     "uFF21", "uFF22", "uFF23", "uFF24", "uFF25", "uFF26", "uFF27", "uFF28",
     "uFF29", "uFF2A", "uFF2B", "uFF2C", "uFF2D", "uFF2E", "uFF2F", "uFF30",
     "uFF31", "uFF32", "uFF33", "uFF34", "uFF35", "uFF36", "uFF37", "uFF38",
     "uFF39", "uFF3A" >>

CaseLower ==
    << "u00E0", "u00E1", "u00E2", "u00E3", "u00E4", "u00E5", "u00E6", "u00E7",
     "u00E8", "u00E9", "u00EA", "u00EB", "u00EC", "u00ED", "u00EE", "u00EF",
     "u00F0", "u00F1", "u00F2", "u00F3", "u00F4", "u00F5", "u00F6", "u00F8",
     "u00F9", "u00FA", "u00FB", "u00FC", "u00FD", "u00FE", "u0101", "u0103",
     "u0105", "u0107", "u0109", "u010B", "u010D", "u010F", "u0111", "u0113",
     "u0115", "u0117", "u0119", "u011B", "u011D", "u011F", "u0121", "u0123",
     "u0125", "u0127", "u0129", "u012B", "u012D", "u012F", "u0133", "u0135",
     "u0137", "u013A", "u013C", "u013E", "u0140", "u0142", "u0144", "u0146",
     "u0148", "u014B", "u014D", "u014F", "u0151", "u0153", "u0155", "u0157",
     "u0159", "u015B", "u015D", "u015F", "u0161", "u0163", "u0165", "u0167",
     "u0169", "u016B", "u016D", "u016F", "u0171", "u0173", "u0175", "u0177",
     "u00FF", "u017A", "u017C", "u017E", "u0253", "u0183", "u0185", "u0254",
     "u0188", "u0256", "u0257", "u018C", "u01DD", "u0259", "u025B", "u0192",
     "u0260", "u0263", "u0269", "u0268", "u0199", "u026F", "u0272", "u0275",
     "u01A1", "u01A3", "u01A5", "u0280", "u01A8", "u0283", "u01AD", "u0288",
     "u01B0", "u028A", "u028B", "u01B4", "u01B6", "u0292", "u01B9", "u01BD",
     "u01C6", "u01C6", "u01C9", "u01C9", "u01CC", "u01CC", "u01CE", "u01D0",
     "u01D2", "u01D4", "u01D6", "u01D8", "u01DA", "u01DC", "u01DF", "u01E1",
     "u01E3", "u01E5", "u01E7", "u01E9", "u01EB", "u01ED", "u01EF", "u01F3",
     "u01F3", "u01F5", "u0195", "u01BF", "u01F9", "u01FB", "u01FD", "u01FF",
     "u0201", "u0203", "u0205", "u0207", "u0209", "u020B", "u020D", "u020F",
     "u0211", "u0213", "u0215", "u0217", "u0219", "u021B", "u021D", "u021F",
     "u019E", "u0223", "u0225", "u0227", "u0229", "u022B", "u022D", "u022F",
     "u0231", "u0233", "u2C65", "u023C", "u019A", "u2C66", "u0242", "u0180",
     "u0289", "u028C", "u0247", "u0249", "u024B", "u024D", "u024F", "u0371",
     "u0373", "u0377", "u03F3", "u03AC", "u03AD", "u03AE", "u03AF", "u03CC",
     "u03CD", "u03CE", "u03B1", "u03B2", "u03B3", "u03B4", "u03B5", "u03B6",
     "u03B7", "u03B8", "u03B9", "u03BA", "u03BB", "u03BC", "u03BD", "u03BE",
     "u03BF", "u03C0", "u03C1", "u03C3", "u03C4", "u03C5", "u03C6", "u03C7",
     "u03C8", "u03C9", "u03CA", "u03CB", "u03D7", "u03D9", "u03DB", "u03DD",
     "u03DF", "u03E1", "u03E3", "u03E5", "u03E7", "u03E9", "u03EB", "u03ED",
     "u03EF", "u03B8", "u03F8", "u03F2", "u03FB", "u037B", "u037C", "u037D",
     "u0450", "u0451", "u0452", "u0453", "u0454", "u0455", "u0456", "u0457",
     "u0458", "u0459", "u045A", "u045B", "u045C", "u045D", "u045E", "u045F",
     "u0430", "u0431", "u0432", "u0433", "u0434", "u0435", "u0436", "u0437",
     "u0438", "u0439", "u043A", "u043B", "u043C", "u043D", "u043E", "u043F",
     "u0440", "u0441", "u0442", "u0443", "u0444", "u0445", "u0446", "u0447",
     "u0448", "u0449", "u044A", "u044B", "u044C", "u044D", "u044E", "u044F",
     "u0461", "u0463", "u0465", "u0467", "u0469", "u046B", "u046D", "u046F",
     "u0471", "u0473", "u0475", "u0477", "u0479", "u047B", "u047D", "u047F",
     "u0481", "u048B", "u048D", "u048F", "u0491", "u0493", "u0495", "u0497",
     "u0499", "u049B", "u049D", "u049F", "u04A1", "u04A3", "u04A5", "u04A7",
     "u04A9", "u04AB", "u04AD", "u04AF", "u04B1", "u04B3", "u04B5", "u04B7",
     "u04B9", "u04BB", "u04BD", "u04BF", "u04CF", "u04C2", "u04C4", "u04C6",
     "u04C8", "u04CA", "u04CC", "u04CE", "u04D1", "u04D3", "u04D5", "u04D7",
     "u04D9", "u04DB", "u04DD", "u04DF", "u04E1", "u04E3", "u04E5", "u04E7",
     "u04E9", "u04EB", "u04ED", "u04EF", "u04F1", "u04F3", "u04F5", "u04F7",
     "u04F9", "u04FB", "u04FD", "u04FF", "u0501", "u0503", "u0505", "u0507",
     "u0509", "u050B", "u050D", "u050F", "u0511", "u0513", "u0515", "u0517",
     "u0519", "u051B", "u051D", "u051F", "u0521", "u0523", "u0525", "u0527",
     "u0529", "u052B", "u052D", "u052F", "u0561", "u0562", "u0563", "u0564",
     "u0565", "u0566", "u0567", "u0568", "u0569", "u056A", "u056B", "u056C",
     "u056D", "u056E", "u056F", "u0570", "u0571", "u0572", "u0573", "u0574",
     "u0575", "u0576", "u0577", "u0578", "u0579", "u057A", "u057B", "u057C",
     "u057D", "u057E", "u057F", "u0580", "u0581", "u0582", "u0583", "u0584",
     "u0585", "u0586", "u2D00", "u2D01", "u2D02", "u2D03", "u2D04", "u2D05",
     "u2D06", "u2D07", "u2D08", "u2D09", "u2D0A", "u2D0B", "u2D0C", "u2D0D",
     "u2D0E", "u2D0F", "u2D10", "u2D11", "u2D12", "u2D13", "u2D14", "u2D15",
     "u2D16", "u2D17", "u2D18", "u2D19", "u2D1A", "u2D1B", "u2D1C", "u2D1D",
     "u2D1E", "u2D1F", "u2D20", "u2D21", "u2D22", "u2D23", "u2D24", "u2D25",
     "u2D27", "u2D2D", "uAB70", "uAB71", "uAB72", "uAB73", "uAB74", "uAB75",
     "uAB76", "uAB77", "uAB78", "uAB79", "uAB7A", "uAB7B", "uAB7C", "uAB7D",
     "uAB7E", "uAB7F", "uAB80", "uAB81", "uAB82", "uAB83", "uAB84", "uAB85",
     "uAB86", "uAB87", "uAB88", "uAB89", "uAB8A", "uAB8B", "uAB8C", "uAB8D",
     "uAB8E", "uAB8F", "uAB90", "uAB91", "uAB92", "uAB93", "uAB94", "uAB95",
     "uAB96", "uAB97", "uAB98", "uAB99", "uAB9A", "uAB9B", "uAB9C", "uAB9D",
     "uAB9E", "uAB9F", "uABA0", "uABA1", "uABA2", "uABA3", "uABA4", "uABA5",
     "uABA6", "uABA7", "uABA8", "uABA9", "uABAA", "uABAB", "uABAC", "uABAD",
     "uABAE", "uABAF", "uABB0", "uABB1", "uABB2", "uABB3", "uABB4", "uABB5",
     "uABB6", "uABB7", "uABB8", "uABB9", "uABBA", "uABBB", "uABBC", "uABBD",
     "uABBE", "uABBF", "u13F8", "u13F9", "u13FA", "u13FB", "u13FC", "u13FD",
     "u1C8A", "u10D0", "u10D1", "u10D2", "u10D3", "u10D4", "u10D5", "u10D6",
     "u10D7", "u10D8", "u10D9", "u10DA", "u10DB", "u10DC", "u10DD", "u10DE",
     "u10DF", "u10E0", "u10E1", "u10E2", "u10E3", "u10E4", "u10E5", "u10E6",
     "u10E7", "u10E8", "u10E9", "u10EA", "u10EB", "u10EC", "u10ED", "u10EE",
     "u10EF", "u10F0", "u10F1", "u10F2", "u10F3", "u10F4", "u10F5", "u10F6",
     "u10F7", "u10F8", "u10F9", "u10FA", "u10FD", "u10FE", "u10FF", "u1E01",
     "u1E03", "u1E05", "u1E07", "u1E09", "u1E0B", "u1E0D", "u1E0F", "u1E11",
     "u1E13", "u1E15", "u1E17", "u1E19", "u1E1B", "u1E1D", "u1E1F", "u1E21",
     "u1E23", "u1E25", "u1E27", "u1E29", "u1E2B", "u1E2D", "u1E2F", "u1E31",
     "u1E33", "u1E35", "u1E37", "u1E39", "u1E3B", "u1E3D", "u1E3F", "u1E41",
     "u1E43", "u1E45", "u1E47", "u1E49", "u1E4B", "u1E4D", "u1E4F", "u1E51",
     "u1E53", "u1E55", "u1E57", "u1E59", "u1E5B", "u1E5D", "u1E5F", "u1E61",
     "u1E63", "u1E65", "u1E67", "u1E69", "u1E6B", "u1E6D", "u1E6F", "u1E71",
     "u1E73", "u1E75", "u1E77", "u1E79", "u1E7B", "u1E7D", "u1E7F", "u1E81",
     "u1E83", "u1E85", "u1E87", "u1E89", "u1E8B", "u1E8D", "u1E8F", "u1E91",
     "u1E93", "u1E95", "u00DF", "u1EA1", "u1EA3", "u1EA5", "u1EA7", "u1EA9",
     "u1EAB", "u1EAD", "u1EAF", "u1EB1", "u1EB3", "u1EB5", "u1EB7", "u1EB9",
     "u1EBB", "u1EBD", "u1EBF", "u1EC1", "u1EC3", "u1EC5", "u1EC7", "u1EC9",
     "u1ECB", "u1ECD", "u1ECF", "u1ED1", "u1ED3", "u1ED5", "u1ED7", "u1ED9",
     "u1EDB", "u1EDD", "u1EDF", "u1EE1", "u1EE3", "u1EE5", "u1EE7", "u1EE9",
     "u1EEB", "u1EED", "u1EEF", "u1EF1", "u1EF3", "u1EF5", "u1EF7", "u1EF9",
     "u1EFB", "u1EFD", "u1EFF", "u1F00", "u1F01", "u1F02", "u1F03", "u1F04",
     "u1F05", "u1F06", "u1F07", "u1F10", "u1F11", "u1F12", "u1F13", "u1F14",
     "u1F15", "u1F20", "u1F21", "u1F22", "u1F23", "u1F24", "u1F25", "u1F26",
     "u1F27", "u1F30", "u1F31", "u1F32", "u1F33", "u1F34", "u1F35", "u1F36",
     "u1F37", "u1F40", "u1F41", "u1F42", "u1F43", "u1F44", "u1F45", "u1F51",
     "u1F53", "u1F55", "u1F57", "u1F60", "u1F61", "u1F62", "u1F63", "u1F64",
     "u1F65", "u1F66", "u1F67", "u1F80", "u1F81", "u1F82", "u1F83", "u1F84",
     "u1F85", "u1F86", "u1F87", "u1F90", "u1F91", "u1F92", "u1F93", "u1F94",
     "u1F95", "u1F96", "u1F97", "u1FA0", "u1FA1", "u1FA2", "u1FA3", "u1FA4",
     "u1FA5", "u1FA6", "u1FA7", "u1FB0", "u1FB1", "u1F70", "u1F71", "u1FB3",
     "u1F72", "u1F73", "u1F74", "u1F75", "u1FC3", "u1FD0", "u1FD1", "u1F76",
     "u1F77", "u1FE0", "u1FE1", "u1F7A", "u1F7B", "u1FE5", "u1F78", "u1F79",
     "u1F7C", "u1F7D", "u1FF3", "u03C9", "k", "u00E5", "u214E", "u2170",
     "u2171", "u2172", "u2173", "u2174", "u2175", "u2176", "u2177", "u2178",
     "u2179", "u217A", "u217B", "u217C", "u217D", "u217E", "u217F", "u2184",
     "u24D0", "u24D1", "u24D2", "u24D3", "u24D4", "u24D5", "u24D6", "u24D7",
     "u24D8", "u24D9", "u24DA", "u24DB", "u24DC", "u24DD", "u24DE", "u24DF",
     "u24E0", "u24E1", "u24E2", "u24E3", "u24E4", "u24E5", "u24E6", "u24E7",
     "u24E8", "u24E9", "u2C30", "u2C31", "u2C32", "u2C33", "u2C34", "u2C35",
     "u2C36", "u2C37", "u2C38", "u2C39", "u2C3A", "u2C3B", "u2C3C", "u2C3D",
     "u2C3E", "u2C3F", "u2C40", "u2C41", "u2C42", "u2C43", "u2C44", "u2C45",
     "u2C46", "u2C47", "u2C48", "u2C49", "u2C4A", "u2C4B", "u2C4C", "u2C4D",
     "u2C4E", "u2C4F", "u2C50", "u2C51", "u2C52", "u2C53", "u2C54", "u2C55",
     "u2C56", "u2C57", "u2C58", "u2C59", "u2C5A", "u2C5B", "u2C5C", "u2C5D",
     "u2C5E", "u2C5F", "u2C61", "u026B", "u1D7D", "u027D", "u2C68", "u2C6A",
     "u2C6C", "u0251", "u0271", "u0250", "u0252", "u2C73", "u2C76", "u023F",
     "u0240", "u2C81", "u2C83", "u2C85", "u2C87", "u2C89", "u2C8B", "u2C8D",
     "u2C8F", "u2C91", "u2C93", "u2C95", "u2C97", "u2C99", "u2C9B", "u2C9D",
     "u2C9F", "u2CA1", "u2CA3", "u2CA5", "u2CA7", "u2CA9", "u2CAB", "u2CAD",
     "u2CAF", "u2CB1", "u2CB3", "u2CB5", "u2CB7", "u2CB9", "u2CBB", "u2CBD",
     "u2CBF", "u2CC1", "u2CC3", "u2CC5", "u2CC7", "u2CC9", "u2CCB", "u2CCD",
     "u2CCF", "u2CD1", "u2CD3", "u2CD5", "u2CD7", "u2CD9", "u2CDB", "u2CDD",
     "u2CDF", "u2CE1", "u2CE3", "u2CEC", "u2CEE", "u2CF3", "uA641", "uA643",
     "uA645", "uA647", "uA649", "uA64B", "uA64D", "uA64F", "uA651", "uA653",
     "uA655", "uA657", "uA659", "uA65B", "uA65D", "uA65F", "uA661", "uA663",
     "uA665", "uA667", "uA669", "uA66B", "uA66D", "uA681", "uA683", "uA685",
     "uA687", "uA689", "uA68B", "uA68D", "uA68F", "uA691", "uA693", "uA695",
     "uA697", "uA699", "uA69B", "uA723", "uA725", "uA727", "uA729", "uA72B",
     "uA72D", "uA72F", "uA733", "uA735", "uA737", "uA739", "uA73B", "uA73D",
     "uA73F", "uA741", "uA743", "uA745", "uA747", "uA749", "uA74B", "uA74D",
     "uA74F", "uA751", "uA753", "uA755", "uA757", "uA759", "uA75B", "uA75D",
     "uA75F", "uA761", "uA763", "uA765", "uA767", "uA769", "uA76B", "uA76D",
     "uA76F", "uA77A", "uA77C", "u1D79", "uA77F", "uA781", "uA783", "uA785",
     "uA787", "uA78C", "u0265", "uA791", "uA793", "uA797", "uA799", "uA79B",
     "uA79D", "uA79F", "uA7A1", "uA7A3", "uA7A5", "uA7A7", "uA7A9", "u0266",
     "u025C", "u0261", "u026C", "u026A", "u029E", "u0287", "u029D", "uAB53",
     "uA7B5", "uA7B7", "uA7B9", "uA7BB", "uA7BD", "uA7BF", "uA7C1", "uA7C3",
     "uA794", "u0282", "u1D8E", "uA7C8", "uA7CA", "u0264", "uA7CD", "uA7CF",
     "uA7D1", "uA7D3", "uA7D5", "uA7D7", "uA7D9", "uA7DB", "u019B", "uA7F6",
     "uFF41", "uFF42", "uFF43", "uFF44", "uFF45", "uFF46", "uFF47", "uFF48",
     "uFF49", "uFF4A", "uFF4B", "uFF4C", "uFF4D", "uFF4E", "uFF4F", "uFF50",
     "uFF51", "uFF52", "uFF53", "uFF54", "uFF55", "uFF56", "uFF57", "uFF58",
     "uFF59", "uFF5A" >>

\* the cased units that have no case mapping of their own
OtherCased ==
    { "u00AA", "u00B5", "u00BA", "u0131", "u0138", "u0149", "u017F", "u018D",
     "u01AA", "u01AB", "u01BA", "u01BE", "u01F0", "u0221", "u0234", "u0235",
     "u0236", "u0237", "u0238", "u0239", "u0255", "u0258", "u025A", "u025D",
     "u025E", "u025F", "u0262", "u0267", "u026D", "u026E", "u0270", "u0273",
     "u0274", "u0276", "u0277", "u0278", "u0279", "u027A", "u027B", "u027C",
     "u027E", "u027F", "u0281", "u0284", "u0285", "u0286", "u028D", "u028E",
     "u028F", "u0290", "u0291", "u0293", "u0296", "u0297", "u0298",
     "u0299", "u029A", "u029B", "u029C", "u029F", "u02A0", "u02A1", "u02A2",
     "u02A3", "u02A4", "u02A5", "u02A6", "u02A7", "u02A8", "u02A9", "u02AA",
     "u02AB", "u02AC", "u02AD", "u02AE", "u02AF", "u0390", "u03B0", "u03C2",
     "u03D0", "u03D1", "u03D2", "u03D3", "u03D4", "u03D5", "u03D6", "u03F0",
     "u03F1", "u03F5", "u03FC", "u0560", "u0587", "u0588", "u1C80", "u1C81",
     "u1C82", "u1C83", "u1C84", "u1C85", "u1C86", "u1C87", "u1C88", "u1D00",
     "u1D01", "u1D02", "u1D03", "u1D04", "u1D05", "u1D06", "u1D07", "u1D08",
     "u1D09", "u1D0A", "u1D0B", "u1D0C", "u1D0D", "u1D0E", "u1D0F", "u1D10",
     "u1D11", "u1D12", "u1D13", "u1D14", "u1D15", "u1D16", "u1D17", "u1D18",
     "u1D19", "u1D1A", "u1D1B", "u1D1C", "u1D1D", "u1D1E", "u1D1F", "u1D20",
     "u1D21", "u1D22", "u1D23", "u1D24", "u1D25", "u1D26", "u1D27", "u1D28",
     "u1D29", "u1D2A", "u1D2B", "u1D6B", "u1D6C", "u1D6D", "u1D6E", "u1D6F",
     "u1D70", "u1D71", "u1D72", "u1D73", "u1D74", "u1D75", "u1D76", "u1D77",
     "u1D7A", "u1D7B", "u1D7C", "u1D7E", "u1D7F", "u1D80", "u1D81", "u1D82",
     "u1D83", "u1D84", "u1D85", "u1D86", "u1D87", "u1D88", "u1D89", "u1D8A",
     "u1D8B", "u1D8C", "u1D8D", "u1D8F", "u1D90", "u1D91", "u1D92", "u1D93",
     "u1D94", "u1D95", "u1D96", "u1D97", "u1D98", "u1D99", "u1D9A", "u1E96",
     "u1E97", "u1E98", "u1E99", "u1E9A", "u1E9B", "u1E9C", "u1E9D", "u1E9F",
     "u1F50", "u1F52", "u1F54", "u1F56", "u1FB2", "u1FB4", "u1FB6", "u1FB7",
     "u1FBE", "u1FC2", "u1FC4", "u1FC6", "u1FC7", "u1FD2", "u1FD3", "u1FD6",
     "u1FD7", "u1FE2", "u1FE3", "u1FE4", "u1FE6", "u1FE7", "u1FF2", "u1FF4",
     "u1FF6", "u1FF7", "u2102", "u2107", "u210A", "u210B", "u210C", "u210D",
     "u210E", "u210F", "u2110", "u2111", "u2112", "u2113", "u2115", "u2119",
     "u211A", "u211B", "u211C", "u211D", "u2124", "u2128", "u212C", "u212D",
     "u212F", "u2130", "u2131", "u2133", "u2134", "u2139", "u213C", "u213D",
     "u213E", "u213F", "u2145", "u2146", "u2147", "u2148", "u2149", "u2C71",
     "u2C74", "u2C77", "u2C78", "u2C79", "u2C7A", "u2C7B", "u2CE4", "uA730",
     "uA731", "uA771", "uA772", "uA773", "uA774", "uA775", "uA776", "uA777",
     "uA778", "uA78E", "uA795", "uA7AF", "uA7FA", "uAB30", "uAB31", "uAB32",
     "uAB33", "uAB34", "uAB35", "uAB36", "uAB37", "uAB38", "uAB39", "uAB3A",
     "uAB3B", "uAB3C", "uAB3D", "uAB3E", "uAB3F", "uAB40", "uAB41", "uAB42",
     "uAB43", "uAB44", "uAB45", "uAB46", "uAB47", "uAB48", "uAB49", "uAB4A",
     "uAB4B", "uAB4C", "uAB4D", "uAB4E", "uAB4F", "uAB50", "uAB51", "uAB52",
     "uAB54", "uAB55", "uAB56", "uAB57", "uAB58", "uAB59", "uAB5A", "uAB60",
     "uAB61", "uAB62", "uAB63", "uAB64", "uAB65", "uAB66", "uAB67", "uAB68",
     "uFB00", "uFB01", "uFB02", "uFB03", "uFB04", "uFB05", "uFB06", "uFB13",
     "uFB14", "uFB15", "uFB16", "uFB17" }

\* the case-ignorable units
CaseIgnorable ==
    { "'", ".", ":", "^", "u0060", "u00A8", "u00AD", "u00AF", "u00B4", "u00B7",
     "u00B8", "u02B0", "u02B1", "u02B2", "u02B3", "u02B4", "u02B5", "u02B6",
     "u02B7", "u02B8", "u02B9", "u02BA", "u02BB", "u02BC", "u02BD", "u02BE",
     "u02BF", "u02C0", "u02C1", "u02C2", "u02C3", "u02C4", "u02C5", "u02C6",
     "u02C7", "u02C8", "u02C9", "u02CA", "u02CB", "u02CC", "u02CD", "u02CE",
     "u02CF", "u02D0", "u02D1", "u02D2", "u02D3", "u02D4", "u02D5", "u02D6",
     "u02D7", "u02D8", "u02D9", "u02DA", "u02DB", "u02DC", "u02DD", "u02DE",
     "u02DF", "u02E0", "u02E1", "u02E2", "u02E3", "u02E4", "u02E5", "u02E6",
     "u02E7", "u02E8", "u02E9", "u02EA", "u02EB", "u02EC", "u02ED", "u02EE",
     "u02EF", "u02F0", "u02F1", "u02F2", "u02F3", "u02F4", "u02F5", "u02F6",
     "u02F7", "u02F8", "u02F9", "u02FA", "u02FB", "u02FC", "u02FD", "u02FE",
     "u02FF", "u0300", "u0301", "u0302", "u0303", "u0304", "u0305", "u0306",
     "u0307", "u0308", "u0309", "u030A", "u030B", "u030C", "u030D", "u030E",
     "u030F", "u0310", "u0311", "u0312", "u0313", "u0314", "u0315", "u0316",
     "u0317", "u0318", "u0319", "u031A", "u031B", "u031C", "u031D", "u031E",
     "u031F", "u0320", "u0321", "u0322", "u0323", "u0324", "u0325", "u0326",
     "u0327", "u0328", "u0329", "u032A", "u032B", "u032C", "u032D", "u032E",
     "u032F", "u0330", "u0331", "u0332", "u0333", "u0334", "u0335", "u0336",
     "u0337", "u0338", "u0339", "u033A", "u033B", "u033C", "u033D", "u033E",
     "u033F", "u0340", "u0341", "u0342", "u0343", "u0344", "u0345", "u0346",
     "u0347", "u0348", "u0349", "u034A", "u034B", "u034C", "u034D", "u034E",
     "u034F", "u0350", "u0351", "u0352", "u0353", "u0354", "u0355", "u0356",
     "u0357", "u0358", "u0359", "u035A", "u035B", "u035C", "u035D", "u035E",
     "u035F", "u0360", "u0361", "u0362", "u0363", "u0364", "u0365", "u0366",
     "u0367", "u0368", "u0369", "u036A", "u036B", "u036C", "u036D", "u036E",
     "u036F", "u0374", "u0375", "u037A", "u0384", "u0385", "u0387", "u0483",
     "u0484", "u0485", "u0486", "u0487", "u0488", "u0489", "u0559", "u055F",
     "u0591", "u0592", "u0593", "u0594", "u0595", "u0596", "u0597", "u0598",
     "u0599", "u059A", "u059B", "u059C", "u059D", "u059E", "u059F", "u05A0",
     "u05A1", "u05A2", "u05A3", "u05A4", "u05A5", "u05A6", "u05A7", "u05A8",
     "u05A9", "u05AA", "u05AB", "u05AC", "u05AD", "u05AE", "u05AF", "u05B0",
     "u05B1", "u05B2", "u05B3", "u05B4", "u05B5", "u05B6", "u05B7", "u05B8",
     "u05B9", "u05BA", "u05BB", "u05BC", "u05BD", "u05BF", "u05C1", "u05C2",
     "u05C4", "u05C5", "u05C7", "u05F4", "u0600", "u0601", "u0602", "u0603",
     "u0604", "u0605", "u0610", "u0611", "u0612", "u0613", "u0614", "u0615",
     "u0616", "u0617", "u0618", "u0619", "u061A", "u061C", "u0640", "u064B",
     "u064C", "u064D", "u064E", "u064F", "u0650", "u0651", "u0652", "u0653",
     "u0654", "u0655", "u0656", "u0657", "u0658", "u0659", "u065A", "u065B",
     "u065C", "u065D", "u065E", "u065F", "u0670", "u06D6", "u06D7", "u06D8",
     "u06D9", "u06DA", "u06DB", "u06DC", "u06DD", "u06DF", "u06E0", "u06E1",
     "u06E2", "u06E3", "u06E4", "u06E5", "u06E6", "u06E7", "u06E8", "u06EA",
     "u06EB", "u06EC", "u06ED", "u070F", "u0711", "u0730", "u0731", "u0732",
     "u0733", "u0734", "u0735", "u0736", "u0737", "u0738", "u0739", "u073A",
     "u073B", "u073C", "u073D", "u073E", "u073F", "u0740", "u0741", "u0742",
     "u0743", "u0744", "u0745", "u0746", "u0747", "u0748", "u0749", "u074A",
     "u07A6", "u07A7", "u07A8", "u07A9", "u07AA", "u07AB", "u07AC", "u07AD",
     "u07AE", "u07AF", "u07B0", "u07EB", "u07EC", "u07ED", "u07EE", "u07EF",
     "u07F0", "u07F1", "u07F2", "u07F3", "u07F4", "u07F5", "u07FA", "u07FD",
     "u0816", "u0817", "u0818", "u0819", "u081A", "u081B", "u081C", "u081D",
     "u081E", "u081F", "u0820", "u0821", "u0822", "u0823", "u0824", "u0825",
     "u0826", "u0827", "u0828", "u0829", "u082A", "u082B", "u082C", "u082D",
     "u0859", "u085A", "u085B", "u0888", "u0890", "u0891", "u0897", "u0898",
     "u0899", "u089A", "u089B", "u089C", "u089D", "u089E", "u089F", "u08C9",
     "u08CA", "u08CB", "u08CC", "u08CD", "u08CE", "u08CF", "u08D0", "u08D1",
     "u08D2", "u08D3", "u08D4", "u08D5", "u08D6", "u08D7", "u08D8", "u08D9",
     "u08DA", "u08DB", "u08DC", "u08DD", "u08DE", "u08DF", "u08E0", "u08E1",
     "u08E2", "u08E3", "u08E4", "u08E5", "u08E6", "u08E7", "u08E8", "u08E9",
     "u08EA", "u08EB", "u08EC", "u08ED", "u08EE", "u08EF", "u08F0", "u08F1",
     "u08F2", "u08F3", "u08F4", "u08F5", "u08F6", "u08F7", "u08F8", "u08F9",
     "u08FA", "u08FB", "u08FC", "u08FD", "u08FE", "u08FF", "u0900", "u0901",
     "u0902", "u093A", "u093C", "u0941", "u0942", "u0943", "u0944", "u0945",
     "u0946", "u0947", "u0948", "u094D", "u0951", "u0952", "u0953", "u0954",
     "u0955", "u0956", "u0957", "u0962", "u0963", "u0971", "u0981", "u09BC",
     "u09C1", "u09C2", "u09C3", "u09C4", "u09CD", "u09E2", "u09E3", "u09FE",
     "u0A01", "u0A02", "u0A3C", "u0A41", "u0A42", "u0A47", "u0A48", "u0A4B",
     "u0A4C", "u0A4D", "u0A51", "u0A70", "u0A71", "u0A75", "u0A81", "u0A82",
     "u0ABC", "u0AC1", "u0AC2", "u0AC3", "u0AC4", "u0AC5", "u0AC7", "u0AC8",
     "u0ACD", "u0AE2", "u0AE3", "u0AFA", "u0AFB", "u0AFC", "u0AFD", "u0AFE",
     "u0AFF", "u0B01", "u0B3C", "u0B3F", "u0B41", "u0B42", "u0B43", "u0B44",
     "u0B4D", "u0B55", "u0B56", "u0B62", "u0B63", "u0B82", "u0BC0", "u0BCD",
     "u0C00", "u0C04", "u0C3C", "u0C3E", "u0C3F", "u0C40", "u0C46", "u0C47",
     "u0C48", "u0C4A", "u0C4B", "u0C4C", "u0C4D", "u0C55", "u0C56", "u0C62",
     "u0C63", "u0C81", "u0CBC", "u0CBF", "u0CC6", "u0CCC", "u0CCD", "u0CE2",
     "u0CE3", "u0D00", "u0D01", "u0D3B", "u0D3C", "u0D41", "u0D42", "u0D43",
     "u0D44", "u0D4D", "u0D62", "u0D63", "u0D81", "u0DCA", "u0DD2", "u0DD3",
     "u0DD4", "u0DD6", "u0E31", "u0E34", "u0E35", "u0E36", "u0E37", "u0E38",
     "u0E39", "u0E3A", "u0E46", "u0E47", "u0E48", "u0E49", "u0E4A", "u0E4B",
     "u0E4C", "u0E4D", "u0E4E", "u0EB1", "u0EB4", "u0EB5", "u0EB6", "u0EB7",
     "u0EB8", "u0EB9", "u0EBA", "u0EBB", "u0EBC", "u0EC6", "u0EC8", "u0EC9",
     "u0ECA", "u0ECB", "u0ECC", "u0ECD", "u0ECE", "u0F18", "u0F19", "u0F35",
     "u0F37", "u0F39", "u0F71", "u0F72", "u0F73", "u0F74", "u0F75", "u0F76",
     "u0F77", "u0F78", "u0F79", "u0F7A", "u0F7B", "u0F7C", "u0F7D", "u0F7E",
     "u0F80", "u0F81", "u0F82", "u0F83", "u0F84", "u0F86", "u0F87", "u0F8D",
     "u0F8E", "u0F8F", "u0F90", "u0F91", "u0F92", "u0F93", "u0F94", "u0F95",
     "u0F96", "u0F97", "u0F99", "u0F9A", "u0F9B", "u0F9C", "u0F9D", "u0F9E",
     "u0F9F", "u0FA0", "u0FA1", "u0FA2", "u0FA3", "u0FA4", "u0FA5", "u0FA6",
     "u0FA7", "u0FA8", "u0FA9", "u0FAA", "u0FAB", "u0FAC", "u0FAD", "u0FAE",
     "u0FAF", "u0FB0", "u0FB1", "u0FB2", "u0FB3", "u0FB4", "u0FB5", "u0FB6",
     "u0FB7", "u0FB8", "u0FB9", "u0FBA", "u0FBB", "u0FBC", "u0FC6", "u102D",
     "u102E", "u102F", "u1030", "u1032", "u1033", "u1034", "u1035", "u1036",
     "u1037", "u1039", "u103A", "u103D", "u103E", "u1058", "u1059", "u105E",
     "u105F", "u1060", "u1071", "u1072", "u1073", "u1074", "u1082", "u1085",
     "u1086", "u108D", "u109D", "u10FC", "u135D", "u135E", "u135F", "u1712",
     "u1713", "u1714", "u1732", "u1733", "u1752", "u1753", "u1772", "u1773",
     "u17B4", "u17B5", "u17B7", "u17B8", "u17B9", "u17BA", "u17BB", "u17BC",
     "u17BD", "u17C6", "u17C9", "u17CA", "u17CB", "u17CC", "u17CD", "u17CE",
     "u17CF", "u17D0", "u17D1", "u17D2", "u17D3", "u17D7", "u17DD", "u180B",
     "u180C", "u180D", "u180E", "u180F", "u1843", "u1885", "u1886", "u18A9",
     "u1920", "u1921", "u1922", "u1927", "u1928", "u1932", "u1939", "u193A",
     "u193B", "u1A17", "u1A18", "u1A1B", "u1A56", "u1A58", "u1A59", "u1A5A",
     "u1A5B", "u1A5C", "u1A5D", "u1A5E", "u1A60", "u1A62", "u1A65", "u1A66",
     "u1A67", "u1A68", "u1A69", "u1A6A", "u1A6B", "u1A6C", "u1A73", "u1A74",
     "u1A75", "u1A76", "u1A77", "u1A78", "u1A79", "u1A7A", "u1A7B", "u1A7C",
     "u1A7F", "u1AA7", "u1AB0", "u1AB1", "u1AB2", "u1AB3", "u1AB4", "u1AB5",
     "u1AB6", "u1AB7", "u1AB8", "u1AB9", "u1ABA", "u1ABB", "u1ABC", "u1ABD",
     "u1ABE", "u1ABF", "u1AC0", "u1AC1", "u1AC2", "u1AC3", "u1AC4", "u1AC5",
     "u1AC6", "u1AC7", "u1AC8", "u1AC9", "u1ACA", "u1ACB", "u1ACC", "u1ACD",
     "u1ACE", "u1ACF", "u1AD0", "u1AD1", "u1AD2", "u1AD3", "u1AD4", "u1AD5",
     "u1AD6", "u1AD7", "u1AD8", "u1AD9", "u1ADA", "u1ADB", "u1ADC", "u1ADD",
     "u1AE0", "u1AE1", "u1AE2", "u1AE3", "u1AE4", "u1AE5", "u1AE6", "u1AE7",
     "u1AE8", "u1AE9", "u1AEA", "u1AEB", "u1B00", "u1B01", "u1B02", "u1B03",
     "u1B34", "u1B36", "u1B37", "u1B38", "u1B39", "u1B3A", "u1B3C", "u1B42",
     "u1B6B", "u1B6C", "u1B6D", "u1B6E", "u1B6F", "u1B70", "u1B71", "u1B72",
     "u1B73", "u1B80", "u1B81", "u1BA2", "u1BA3", "u1BA4", "u1BA5", "u1BA8",
     "u1BA9", "u1BAB", "u1BAC", "u1BAD", "u1BE6", "u1BE8", "u1BE9", "u1BED",
     "u1BEF", "u1BF0", "u1BF1", "u1C2C", "u1C2D", "u1C2E", "u1C2F", "u1C30",
     "u1C31", "u1C32", "u1C33", "u1C36", "u1C37", "u1C78", "u1C79", "u1C7A",
     "u1C7B", "u1C7C", "u1C7D", "u1CD0", "u1CD1", "u1CD2", "u1CD4", "u1CD5",
     "u1CD6", "u1CD7", "u1CD8", "u1CD9", "u1CDA", "u1CDB", "u1CDC", "u1CDD",
     "u1CDE", "u1CDF", "u1CE0", "u1CE2", "u1CE3", "u1CE4", "u1CE5", "u1CE6",
     "u1CE7", "u1CE8", "u1CED", "u1CF4", "u1CF8", "u1CF9", "u1D2C", "u1D2D",
     "u1D2E", "u1D2F", "u1D30", "u1D31", "u1D32", "u1D33", "u1D34", "u1D35",
     "u1D36", "u1D37", "u1D38", "u1D39", "u1D3A", "u1D3B", "u1D3C", "u1D3D",
     "u1D3E", "u1D3F", "u1D40", "u1D41", "u1D42", "u1D43", "u1D44", "u1D45",
     "u1D46", "u1D47", "u1D48", "u1D49", "u1D4A", "u1D4B", "u1D4C", "u1D4D",
     "u1D4E", "u1D4F", "u1D50", "u1D51", "u1D52", "u1D53", "u1D54", "u1D55",
     "u1D56", "u1D57", "u1D58", "u1D59", "u1D5A", "u1D5B", "u1D5C", "u1D5D",
     "u1D5E", "u1D5F", "u1D60", "u1D61", "u1D62", "u1D63", "u1D64", "u1D65",
     "u1D66", "u1D67", "u1D68", "u1D69", "u1D6A", "u1D78", "u1D9B", "u1D9C",
     "u1D9D", "u1D9E", "u1D9F", "u1DA0", "u1DA1", "u1DA2", "u1DA3", "u1DA4",
     "u1DA5", "u1DA6", "u1DA7", "u1DA8", "u1DA9", "u1DAA", "u1DAB", "u1DAC",
     "u1DAD", "u1DAE", "u1DAF", "u1DB0", "u1DB1", "u1DB2", "u1DB3", "u1DB4",
     "u1DB5", "u1DB6", "u1DB7", "u1DB8", "u1DB9", "u1DBA", "u1DBB", "u1DBC",
     "u1DBD", "u1DBE", "u1DBF", "u1DC0", "u1DC1", "u1DC2", "u1DC3", "u1DC4",
     "u1DC5", "u1DC6", "u1DC7", "u1DC8", "u1DC9", "u1DCA", "u1DCB", "u1DCC",
     "u1DCD", "u1DCE", "u1DCF", "u1DD0", "u1DD1", "u1DD2", "u1DD3", "u1DD4",
     "u1DD5", "u1DD6", "u1DD7", "u1DD8", "u1DD9", "u1DDA", "u1DDB", "u1DDC",
     "u1DDD", "u1DDE", "u1DDF", "u1DE0", "u1DE1", "u1DE2", "u1DE3", "u1DE4",
     "u1DE5", "u1DE6", "u1DE7", "u1DE8", "u1DE9", "u1DEA", "u1DEB", "u1DEC",
     "u1DED", "u1DEE", "u1DEF", "u1DF0", "u1DF1", "u1DF2", "u1DF3", "u1DF4",
     "u1DF5", "u1DF6", "u1DF7", "u1DF8", "u1DF9", "u1DFA", "u1DFB", "u1DFC",
     "u1DFD", "u1DFE", "u1DFF", "u1FBD", "u1FBF", "u1FC0", "u1FC1", "u1FCD",
     "u1FCE", "u1FCF", "u1FDD", "u1FDE", "u1FDF", "u1FED", "u1FEE", "u1FEF",
     "u1FFD", "u1FFE", "u200B", "u200C", "u200D", "u200E", "u200F", "u2018",
     "u2019", "u2024", "u2027", "u202A", "u202B", "u202C", "u202D", "u202E",
     "u2060", "u2061", "u2062", "u2063", "u2064", "u2066", "u2067", "u2068",
     "u2069", "u206A", "u206B", "u206C", "u206D", "u206E", "u206F", "u2071",
     "u207F", "u2090", "u2091", "u2092", "u2093", "u2094", "u2095", "u2096",
     "u2097", "u2098", "u2099", "u209A", "u209B", "u209C", "u20D0", "u20D1",
     "u20D2", "u20D3", "u20D4", "u20D5", "u20D6", "u20D7", "u20D8", "u20D9",
     "u20DA", "u20DB", "u20DC", "u20DD", "u20DE", "u20DF", "u20E0", "u20E1",
     "u20E2", "u20E3", "u20E4", "u20E5", "u20E6", "u20E7", "u20E8", "u20E9",
     "u20EA", "u20EB", "u20EC", "u20ED", "u20EE", "u20EF", "u20F0", "u2C7C",
     "u2C7D", "u2CEF", "u2CF0", "u2CF1", "u2D6F", "u2D7F", "u2DE0", "u2DE1",
     "u2DE2", "u2DE3", "u2DE4", "u2DE5", "u2DE6", "u2DE7", "u2DE8", "u2DE9",
     "u2DEA", "u2DEB", "u2DEC", "u2DED", "u2DEE", "u2DEF", "u2DF0", "u2DF1",
     "u2DF2", "u2DF3", "u2DF4", "u2DF5", "u2DF6", "u2DF7", "u2DF8", "u2DF9",
     "u2DFA", "u2DFB", "u2DFC", "u2DFD", "u2DFE", "u2DFF", "u2E2F", "u3005",
     "u302A", "u302B", "u302C", "u302D", "u3031", "u3032", "u3033", "u3034",
     "u3035", "u303B", "u3099", "u309A", "u309B", "u309C", "u309D", "u309E",
     "u30FC", "u30FD", "u30FE", "uA015", "uA4F8", "uA4F9", "uA4FA", "uA4FB",
     "uA4FC", "uA4FD", "uA60C", "uA66F", "uA670", "uA671", "uA672", "uA674",
     "uA675", "uA676", "uA677", "uA678", "uA679", "uA67A", "uA67B", "uA67C",
     "uA67D", "uA67F", "uA69C", "uA69D", "uA69E", "uA69F", "uA6F0", "uA6F1",
     "uA700", "uA701", "uA702", "uA703", "uA704", "uA705", "uA706", "uA707",
     "uA708", "uA709", "uA70A", "uA70B", "uA70C", "uA70D", "uA70E", "uA70F",
     "uA710", "uA711", "uA712", "uA713", "uA714", "uA715", "uA716", "uA717",
     "uA718", "uA719", "uA71A", "uA71B", "uA71C", "uA71D", "uA71E", "uA71F",
     "uA720", "uA721", "uA770", "uA788", "uA789", "uA78A", "uA7F1", "uA7F2",
     "uA7F3", "uA7F4", "uA7F8", "uA7F9", "uA802", "uA806", "uA80B", "uA825",
     "uA826", "uA82C", "uA8C4", "uA8C5", "uA8E0", "uA8E1", "uA8E2", "uA8E3",
     "uA8E4", "uA8E5", "uA8E6", "uA8E7", "uA8E8", "uA8E9", "uA8EA", "uA8EB",
     "uA8EC", "uA8ED", "uA8EE", "uA8EF", "uA8F0", "uA8F1", "uA8FF", "uA926",
     "uA927", "uA928", "uA929", "uA92A", "uA92B", "uA92C", "uA92D", "uA947",
     "uA948", "uA949", "uA94A", "uA94B", "uA94C", "uA94D", "uA94E", "uA94F",
     "uA950", "uA951", "uA980", "uA981", "uA982", "uA9B3", "uA9B6", "uA9B7",
     "uA9B8", "uA9B9", "uA9BC", "uA9BD", "uA9CF", "uA9E5", "uA9E6", "uAA29",
     "uAA2A", "uAA2B", "uAA2C", "uAA2D", "uAA2E", "uAA31", "uAA32", "uAA35",
     "uAA36", "uAA43", "uAA4C", "uAA70", "uAA7C", "uAAB0", "uAAB2", "uAAB3",
     "uAAB4", "uAAB7", "uAAB8", "uAABE", "uAABF", "uAAC1", "uAADD", "uAAEC",
     "uAAED", "uAAF3", "uAAF4", "uAAF6", "uAB5B", "uAB5C", "uAB5D", "uAB5E",
     "uAB5F", "uAB69", "uAB6A", "uAB6B", "uABE5", "uABE8", "uABED", "uFB1E",
     "uFBB2", "uFBB3", "uFBB4", "uFBB5", "uFBB6", "uFBB7", "uFBB8", "uFBB9",
     "uFBBA", "uFBBB", "uFBBC", "uFBBD", "uFBBE", "uFBBF", "uFBC0", "uFBC1",
     "uFBC2", "uFE00", "uFE01", "uFE02", "uFE03", "uFE04", "uFE05", "uFE06",
     "uFE07", "uFE08", "uFE09", "uFE0A", "uFE0B", "uFE0C", "uFE0D", "uFE0E",
     "uFE0F", "uFE13", "uFE20", "uFE21", "uFE22", "uFE23", "uFE24", "uFE25",
     "uFE26", "uFE27", "uFE28", "uFE29", "uFE2A", "uFE2B", "uFE2C", "uFE2D",
     "uFE2E", "uFE2F", "uFE52", "uFE55", "uFEFF", "uFF07", "uFF0E", "uFF1A",
     "uFF3E", "uFF40", "uFF70", "uFF9E", "uFF9F", "uFFE3", "uFFF9", "uFFFA",
     "uFFFB" }

\* the surrogate units, U+D800 to U+DFFF in order: the first 1024 are the
\* high (leading) ones, the others the low (trailing) ones
Surrogates ==
    << "uD800", "uD801", "uD802", "uD803", "uD804", "uD805", "uD806", "uD807",
     "uD808", "uD809", "uD80A", "uD80B", "uD80C", "uD80D", "uD80E", "uD80F",
     "uD810", "uD811", "uD812", "uD813", "uD814", "uD815", "uD816", "uD817",
     "uD818", "uD819", "uD81A", "uD81B", "uD81C", "uD81D", "uD81E", "uD81F",
     "uD820", "uD821", "uD822", "uD823", "uD824", "uD825", "uD826", "uD827",
     "uD828", "uD829", "uD82A", "uD82B", "uD82C", "uD82D", "uD82E", "uD82F",
     "uD830", "uD831", "uD832", "uD833", "uD834", "uD835", "uD836", "uD837",
     "uD838", "uD839", "uD83A", "uD83B", "uD83C", "uD83D", "uD83E", "uD83F",
     "uD840", "uD841", "uD842", "uD843", "uD844", "uD845", "uD846", "uD847",
     "uD848", "uD849", "uD84A", "uD84B", "uD84C", "uD84D", "uD84E", "uD84F",
     "uD850", "uD851", "uD852", "uD853", "uD854", "uD855", "uD856", "uD857",
     "uD858", "uD859", "uD85A", "uD85B", "uD85C", "uD85D", "uD85E", "uD85F",
     "uD860", "uD861", "uD862", "uD863", "uD864", "uD865", "uD866", "uD867",
     "uD868", "uD869", "uD86A", "uD86B", "uD86C", "uD86D", "uD86E", "uD86F",
     "uD870", "uD871", "uD872", "uD873", "uD874", "uD875", "uD876", "uD877",
     "uD878", "uD879", "uD87A", "uD87B", "uD87C", "uD87D", "uD87E", "uD87F",
     "uD880", "uD881", "uD882", "uD883", "uD884", "uD885", "uD886", "uD887",
     "uD888", "uD889", "uD88A", "uD88B", "uD88C", "uD88D", "uD88E", "uD88F",
     "uD890", "uD891", "uD892", "uD893", "uD894", "uD895", "uD896", "uD897",
     "uD898", "uD899", "uD89A", "uD89B", "uD89C", "uD89D", "uD89E", "uD89F",
     "uD8A0", "uD8A1", "uD8A2", "uD8A3", "uD8A4", "uD8A5", "uD8A6", "uD8A7",
     "uD8A8", "uD8A9", "uD8AA", "uD8AB", "uD8AC", "uD8AD", "uD8AE", "uD8AF",
     "uD8B0", "uD8B1", "uD8B2", "uD8B3", "uD8B4", "uD8B5", "uD8B6", "uD8B7",
     "uD8B8", "uD8B9", "uD8BA", "uD8BB", "uD8BC", "uD8BD", "uD8BE", "uD8BF",
     "uD8C0", "uD8C1", "uD8C2", "uD8C3", "uD8C4", "uD8C5", "uD8C6", "uD8C7",
     "uD8C8", "uD8C9", "uD8CA", "uD8CB", "uD8CC", "uD8CD", "uD8CE", "uD8CF",
     "uD8D0", "uD8D1", "uD8D2", "uD8D3", "uD8D4", "uD8D5", "uD8D6", "uD8D7",
     "uD8D8", "uD8D9", "uD8DA", "uD8DB", "uD8DC", "uD8DD", "uD8DE", "uD8DF",
     "uD8E0", "uD8E1", "uD8E2", "uD8E3", "uD8E4", "uD8E5", "uD8E6", "uD8E7",
     "uD8E8", "uD8E9", "uD8EA", "uD8EB", "uD8EC", "uD8ED", "uD8EE", "uD8EF",
     "uD8F0", "uD8F1", "uD8F2", "uD8F3", "uD8F4", "uD8F5", "uD8F6", "uD8F7",
     "uD8F8", "uD8F9", "uD8FA", "uD8FB", "uD8FC", "uD8FD", "uD8FE", "uD8FF",
     "uD900", "uD901", "uD902", "uD903", "uD904", "uD905", "uD906", "uD907",
     "uD908", "uD909", "uD90A", "uD90B", "uD90C", "uD90D", "uD90E", "uD90F",
     "uD910", "uD911", "uD912", "uD913", "uD914", "uD915", "uD916", "uD917",
     "uD918", "uD919", "uD91A", "uD91B", "uD91C", "uD91D", "uD91E", "uD91F",
     "uD920", "uD921", "uD922", "uD923", "uD924", "uD925", "uD926", "uD927",
     "uD928", "uD929", "uD92A", "uD92B", "uD92C", "uD92D", "uD92E", "uD92F",
     "uD930", "uD931", "uD932", "uD933", "uD934", "uD935", "uD936", "uD937",
     "uD938", "uD939", "uD93A", "uD93B", "uD93C", "uD93D", "uD93E", "uD93F",
     "uD940", "uD941", "uD942", "uD943", "uD944", "uD945", "uD946", "uD947",
     "uD948", "uD949", "uD94A", "uD94B", "uD94C", "uD94D", "uD94E", "uD94F",
     "uD950", "uD951", "uD952", "uD953", "uD954", "uD955", "uD956", "uD957",
     "uD958", "uD959", "uD95A", "uD95B", "uD95C", "uD95D", "uD95E", "uD95F",
     "uD960", "uD961", "uD962", "uD963", "uD964", "uD965", "uD966", "uD967",
     "uD968", "uD969", "uD96A", "uD96B", "uD96C", "uD96D", "uD96E", "uD96F",
     "uD970", "uD971", "uD972", "uD973", "uD974", "uD975", "uD976", "uD977",
     "uD978", "uD979", "uD97A", "uD97B", "uD97C", "uD97D", "uD97E", "uD97F",
     "uD980", "uD981", "uD982", "uD983", "uD984", "uD985", "uD986", "uD987",
     "uD988", "uD989", "uD98A", "uD98B", "uD98C", "uD98D", "uD98E", "uD98F",
     "uD990", "uD991", "uD992", "uD993", "uD994", "uD995", "uD996", "uD997",
     "uD998", "uD999", "uD99A", "uD99B", "uD99C", "uD99D", "uD99E", "uD99F",
     "uD9A0", "uD9A1", "uD9A2", "uD9A3", "uD9A4", "uD9A5", "uD9A6", "uD9A7",
     "uD9A8", "uD9A9", "uD9AA", "uD9AB", "uD9AC", "uD9AD", "uD9AE", "uD9AF",
     "uD9B0", "uD9B1", "uD9B2", "uD9B3", "uD9B4", "uD9B5", "uD9B6", "uD9B7",
     "uD9B8", "uD9B9", "uD9BA", "uD9BB", "uD9BC", "uD9BD", "uD9BE", "uD9BF",
     "uD9C0", "uD9C1", "uD9C2", "uD9C3", "uD9C4", "uD9C5", "uD9C6", "uD9C7",
     "uD9C8", "uD9C9", "uD9CA", "uD9CB", "uD9CC", "uD9CD", "uD9CE", "uD9CF",
     "uD9D0", "uD9D1", "uD9D2", "uD9D3", "uD9D4", "uD9D5", "uD9D6", "uD9D7",
     "uD9D8", "uD9D9", "uD9DA", "uD9DB", "uD9DC", "uD9DD", "uD9DE", "uD9DF",
     "uD9E0", "uD9E1", "uD9E2", "uD9E3", "uD9E4", "uD9E5", "uD9E6", "uD9E7",
     "uD9E8", "uD9E9", "uD9EA", "uD9EB", "uD9EC", "uD9ED", "uD9EE", "uD9EF",
     "uD9F0", "uD9F1", "uD9F2", "uD9F3", "uD9F4", "uD9F5", "uD9F6", "uD9F7",
     "uD9F8", "uD9F9", "uD9FA", "uD9FB", "uD9FC", "uD9FD", "uD9FE", "uD9FF",
     "uDA00", "uDA01", "uDA02", "uDA03", "uDA04", "uDA05", "uDA06", "uDA07",
     "uDA08", "uDA09", "uDA0A", "uDA0B", "uDA0C", "uDA0D", "uDA0E", "uDA0F",
     "uDA10", "uDA11", "uDA12", "uDA13", "uDA14", "uDA15", "uDA16", "uDA17",
     "uDA18", "uDA19", "uDA1A", "uDA1B", "uDA1C", "uDA1D", "uDA1E", "uDA1F",
     "uDA20", "uDA21", "uDA22", "uDA23", "uDA24", "uDA25", "uDA26", "uDA27",
     "uDA28", "uDA29", "uDA2A", "uDA2B", "uDA2C", "uDA2D", "uDA2E", "uDA2F",
     "uDA30", "uDA31", "uDA32", "uDA33", "uDA34", "uDA35", "uDA36", "uDA37",
     "uDA38", "uDA39", "uDA3A", "uDA3B", "uDA3C", "uDA3D", "uDA3E", "uDA3F",
     "uDA40", "uDA41", "uDA42", "uDA43", "uDA44", "uDA45", "uDA46", "uDA47",
     "uDA48", "uDA49", "uDA4A", "uDA4B", "uDA4C", "uDA4D", "uDA4E", "uDA4F",
     "uDA50", "uDA51", "uDA52", "uDA53", "uDA54", "uDA55", "uDA56", "uDA57",
     "uDA58", "uDA59", "uDA5A", "uDA5B", "uDA5C", "uDA5D", "uDA5E", "uDA5F",
     "uDA60", "uDA61", "uDA62", "uDA63", "uDA64", "uDA65", "uDA66", "uDA67",
     "uDA68", "uDA69", "uDA6A", "uDA6B", "uDA6C", "uDA6D", "uDA6E", "uDA6F",
     "uDA70", "uDA71", "uDA72", "uDA73", "uDA74", "uDA75", "uDA76", "uDA77",
     "uDA78", "uDA79", "uDA7A", "uDA7B", "uDA7C", "uDA7D", "uDA7E", "uDA7F",
     "uDA80", "uDA81", "uDA82", "uDA83", "uDA84", "uDA85", "uDA86", "uDA87",
     "uDA88", "uDA89", "uDA8A", "uDA8B", "uDA8C", "uDA8D", "uDA8E", "uDA8F",
     "uDA90", "uDA91", "uDA92", "uDA93", "uDA94", "uDA95", "uDA96", "uDA97",
     "uDA98", "uDA99", "uDA9A", "uDA9B", "uDA9C", "uDA9D", "uDA9E", "uDA9F",
     "uDAA0", "uDAA1", "uDAA2", "uDAA3", "uDAA4", "uDAA5", "uDAA6", "uDAA7",
     "uDAA8", "uDAA9", "uDAAA", "uDAAB", "uDAAC", "uDAAD", "uDAAE", "uDAAF",
     "uDAB0", "uDAB1", "uDAB2", "uDAB3", "uDAB4", "uDAB5", "uDAB6", "uDAB7",
     "uDAB8", "uDAB9", "uDABA", "uDABB", "uDABC", "uDABD", "uDABE", "uDABF",
     "uDAC0", "uDAC1", "uDAC2", "uDAC3", "uDAC4", "uDAC5", "uDAC6", "uDAC7",
     "uDAC8", "uDAC9", "uDACA", "uDACB", "uDACC", "uDACD", "uDACE", "uDACF",
     "uDAD0", "uDAD1", "uDAD2", "uDAD3", "uDAD4", "uDAD5", "uDAD6", "uDAD7",
     "uDAD8", "uDAD9", "uDADA", "uDADB", "uDADC", "uDADD", "uDADE", "uDADF",
     "uDAE0", "uDAE1", "uDAE2", "uDAE3", "uDAE4", "uDAE5", "uDAE6", "uDAE7",
     "uDAE8", "uDAE9", "uDAEA", "uDAEB", "uDAEC", "uDAED", "uDAEE", "uDAEF",
     "uDAF0", "uDAF1", "uDAF2", "uDAF3", "uDAF4", "uDAF5", "uDAF6", "uDAF7",
     "uDAF8", "uDAF9", "uDAFA", "uDAFB", "uDAFC", "uDAFD", "uDAFE", "uDAFF",
     "uDB00", "uDB01", "uDB02", "uDB03", "uDB04", "uDB05", "uDB06", "uDB07",
     "uDB08", "uDB09", "uDB0A", "uDB0B", "uDB0C", "uDB0D", "uDB0E", "uDB0F",
     "uDB10", "uDB11", "uDB12", "uDB13", "uDB14", "uDB15", "uDB16", "uDB17",
     "uDB18", "uDB19", "uDB1A", "uDB1B", "uDB1C", "uDB1D", "uDB1E", "uDB1F",
     "uDB20", "uDB21", "uDB22", "uDB23", "uDB24", "uDB25", "uDB26", "uDB27",
     "uDB28", "uDB29", "uDB2A", "uDB2B", "uDB2C", "uDB2D", "uDB2E", "uDB2F",
     "uDB30", "uDB31", "uDB32", "uDB33", "uDB34", "uDB35", "uDB36", "uDB37",
     "uDB38", "uDB39", "uDB3A", "uDB3B", "uDB3C", "uDB3D", "uDB3E", "uDB3F",
     "uDB40", "uDB41", "uDB42", "uDB43", "uDB44", "uDB45", "uDB46", "uDB47",
     "uDB48", "uDB49", "uDB4A", "uDB4B", "uDB4C", "uDB4D", "uDB4E", "uDB4F",
     "uDB50", "uDB51", "uDB52", "uDB53", "uDB54", "uDB55", "uDB56", "uDB57",
     "uDB58", "uDB59", "uDB5A", "uDB5B", "uDB5C", "uDB5D", "uDB5E", "uDB5F",
     "uDB60", "uDB61", "uDB62", "uDB63", "uDB64", "uDB65", "uDB66", "uDB67",
     "uDB68", "uDB69", "uDB6A", "uDB6B", "uDB6C", "uDB6D", "uDB6E", "uDB6F",
     "uDB70", "uDB71", "uDB72", "uDB73", "uDB74", "uDB75", "uDB76", "uDB77",
     "uDB78", "uDB79", "uDB7A", "uDB7B", "uDB7C", "uDB7D", "uDB7E", "uDB7F",
     "uDB80", "uDB81", "uDB82", "uDB83", "uDB84", "uDB85", "uDB86", "uDB87",
     "uDB88", "uDB89", "uDB8A", "uDB8B", "uDB8C", "uDB8D", "uDB8E", "uDB8F",
     "uDB90", "uDB91", "uDB92", "uDB93", "uDB94", "uDB95", "uDB96", "uDB97",
     "uDB98", "uDB99", "uDB9A", "uDB9B", "uDB9C", "uDB9D", "uDB9E", "uDB9F",
     "uDBA0", "uDBA1", "uDBA2", "uDBA3", "uDBA4", "uDBA5", "uDBA6", "uDBA7",
     "uDBA8", "uDBA9", "uDBAA", "uDBAB", "uDBAC", "uDBAD", "uDBAE", "uDBAF",
     "uDBB0", "uDBB1", "uDBB2", "uDBB3", "uDBB4", "uDBB5", "uDBB6", "uDBB7",
     "uDBB8", "uDBB9", "uDBBA", "uDBBB", "uDBBC", "uDBBD", "uDBBE", "uDBBF",
     "uDBC0", "uDBC1", "uDBC2", "uDBC3", "uDBC4", "uDBC5", "uDBC6", "uDBC7",
     "uDBC8", "uDBC9", "uDBCA", "uDBCB", "uDBCC", "uDBCD", "uDBCE", "uDBCF",
     "uDBD0", "uDBD1", "uDBD2", "uDBD3", "uDBD4", "uDBD5", "uDBD6", "uDBD7",
     "uDBD8", "uDBD9", "uDBDA", "uDBDB", "uDBDC", "uDBDD", "uDBDE", "uDBDF",
     "uDBE0", "uDBE1", "uDBE2", "uDBE3", "uDBE4", "uDBE5", "uDBE6", "uDBE7",
     "uDBE8", "uDBE9", "uDBEA", "uDBEB", "uDBEC", "uDBED", "uDBEE", "uDBEF",
     "uDBF0", "uDBF1", "uDBF2", "uDBF3", "uDBF4", "uDBF5", "uDBF6", "uDBF7",
     "uDBF8", "uDBF9", "uDBFA", "uDBFB", "uDBFC", "uDBFD", "uDBFE", "uDBFF",
     "uDC00", "uDC01", "uDC02", "uDC03", "uDC04", "uDC05", "uDC06", "uDC07",
     "uDC08", "uDC09", "uDC0A", "uDC0B", "uDC0C", "uDC0D", "uDC0E", "uDC0F",
     "uDC10", "uDC11", "uDC12", "uDC13", "uDC14", "uDC15", "uDC16", "uDC17",
     "uDC18", "uDC19", "uDC1A", "uDC1B", "uDC1C", "uDC1D", "uDC1E", "uDC1F",
     "uDC20", "uDC21", "uDC22", "uDC23", "uDC24", "uDC25", "uDC26", "uDC27",
     "uDC28", "uDC29", "uDC2A", "uDC2B", "uDC2C", "uDC2D", "uDC2E", "uDC2F",
     "uDC30", "uDC31", "uDC32", "uDC33", "uDC34", "uDC35", "uDC36", "uDC37",
     "uDC38", "uDC39", "uDC3A", "uDC3B", "uDC3C", "uDC3D", "uDC3E", "uDC3F",
     "uDC40", "uDC41", "uDC42", "uDC43", "uDC44", "uDC45", "uDC46", "uDC47",
     "uDC48", "uDC49", "uDC4A", "uDC4B", "uDC4C", "uDC4D", "uDC4E", "uDC4F",
     "uDC50", "uDC51", "uDC52", "uDC53", "uDC54", "uDC55", "uDC56", "uDC57",
     "uDC58", "uDC59", "uDC5A", "uDC5B", "uDC5C", "uDC5D", "uDC5E", "uDC5F",
     "uDC60", "uDC61", "uDC62", "uDC63", "uDC64", "uDC65", "uDC66", "uDC67",
     "uDC68", "uDC69", "uDC6A", "uDC6B", "uDC6C", "uDC6D", "uDC6E", "uDC6F",
     "uDC70", "uDC71", "uDC72", "uDC73", "uDC74", "uDC75", "uDC76", "uDC77",
     "uDC78", "uDC79", "uDC7A", "uDC7B", "uDC7C", "uDC7D", "uDC7E", "uDC7F",
     "uDC80", "uDC81", "uDC82", "uDC83", "uDC84", "uDC85", "uDC86", "uDC87",
     "uDC88", "uDC89", "uDC8A", "uDC8B", "uDC8C", "uDC8D", "uDC8E", "uDC8F",
     "uDC90", "uDC91", "uDC92", "uDC93", "uDC94", "uDC95", "uDC96", "uDC97",
     "uDC98", "uDC99", "uDC9A", "uDC9B", "uDC9C", "uDC9D", "uDC9E", "uDC9F",
     "uDCA0", "uDCA1", "uDCA2", "uDCA3", "uDCA4", "uDCA5", "uDCA6", "uDCA7",
     "uDCA8", "uDCA9", "uDCAA", "uDCAB", "uDCAC", "uDCAD", "uDCAE", "uDCAF",
     "uDCB0", "uDCB1", "uDCB2", "uDCB3", "uDCB4", "uDCB5", "uDCB6", "uDCB7",
     "uDCB8", "uDCB9", "uDCBA", "uDCBB", "uDCBC", "uDCBD", "uDCBE", "uDCBF",
     "uDCC0", "uDCC1", "uDCC2", "uDCC3", "uDCC4", "uDCC5", "uDCC6", "uDCC7",
     "uDCC8", "uDCC9", "uDCCA", "uDCCB", "uDCCC", "uDCCD", "uDCCE", "uDCCF",
     "uDCD0", "uDCD1", "uDCD2", "uDCD3", "uDCD4", "uDCD5", "uDCD6", "uDCD7",
     "uDCD8", "uDCD9", "uDCDA", "uDCDB", "uDCDC", "uDCDD", "uDCDE", "uDCDF",
     "uDCE0", "uDCE1", "uDCE2", "uDCE3", "uDCE4", "uDCE5", "uDCE6", "uDCE7",
     "uDCE8", "uDCE9", "uDCEA", "uDCEB", "uDCEC", "uDCED", "uDCEE", "uDCEF",
     "uDCF0", "uDCF1", "uDCF2", "uDCF3", "uDCF4", "uDCF5", "uDCF6", "uDCF7",
     "uDCF8", "uDCF9", "uDCFA", "uDCFB", "uDCFC", "uDCFD", "uDCFE", "uDCFF",
     "uDD00", "uDD01", "uDD02", "uDD03", "uDD04", "uDD05", "uDD06", "uDD07",
     "uDD08", "uDD09", "uDD0A", "uDD0B", "uDD0C", "uDD0D", "uDD0E", "uDD0F",
     "uDD10", "uDD11", "uDD12", "uDD13", "uDD14", "uDD15", "uDD16", "uDD17",
     "uDD18", "uDD19", "uDD1A", "uDD1B", "uDD1C", "uDD1D", "uDD1E", "uDD1F",
     "uDD20", "uDD21", "uDD22", "uDD23", "uDD24", "uDD25", "uDD26", "uDD27",
     "uDD28", "uDD29", "uDD2A", "uDD2B", "uDD2C", "uDD2D", "uDD2E", "uDD2F",
     "uDD30", "uDD31", "uDD32", "uDD33", "uDD34", "uDD35", "uDD36", "uDD37",
     "uDD38", "uDD39", "uDD3A", "uDD3B", "uDD3C", "uDD3D", "uDD3E", "uDD3F",
     "uDD40", "uDD41", "uDD42", "uDD43", "uDD44", "uDD45", "uDD46", "uDD47",
     "uDD48", "uDD49", "uDD4A", "uDD4B", "uDD4C", "uDD4D", "uDD4E", "uDD4F",
     "uDD50", "uDD51", "uDD52", "uDD53", "uDD54", "uDD55", "uDD56", "uDD57",
     "uDD58", "uDD59", "uDD5A", "uDD5B", "uDD5C", "uDD5D", "uDD5E", "uDD5F",
     "uDD60", "uDD61", "uDD62", "uDD63", "uDD64", "uDD65", "uDD66", "uDD67",
     "uDD68", "uDD69", "uDD6A", "uDD6B", "uDD6C", "uDD6D", "uDD6E", "uDD6F",
     "uDD70", "uDD71", "uDD72", "uDD73", "uDD74", "uDD75", "uDD76", "uDD77",
     "uDD78", "uDD79", "uDD7A", "uDD7B", "uDD7C", "uDD7D", "uDD7E", "uDD7F",
     "uDD80", "uDD81", "uDD82", "uDD83", "uDD84", "uDD85", "uDD86", "uDD87",
     "uDD88", "uDD89", "uDD8A", "uDD8B", "uDD8C", "uDD8D", "uDD8E", "uDD8F",
     "uDD90", "uDD91", "uDD92", "uDD93", "uDD94", "uDD95", "uDD96", "uDD97",
     "uDD98", "uDD99", "uDD9A", "uDD9B", "uDD9C", "uDD9D", "uDD9E", "uDD9F",
     "uDDA0", "uDDA1", "uDDA2", "uDDA3", "uDDA4", "uDDA5", "uDDA6", "uDDA7",
     "uDDA8", "uDDA9", "uDDAA", "uDDAB", "uDDAC", "uDDAD", "uDDAE", "uDDAF",
     "uDDB0", "uDDB1", "uDDB2", "uDDB3", "uDDB4", "uDDB5", "uDDB6", "uDDB7",
     "uDDB8", "uDDB9", "uDDBA", "uDDBB", "uDDBC", "uDDBD", "uDDBE", "uDDBF",
     "uDDC0", "uDDC1", "uDDC2", "uDDC3", "uDDC4", "uDDC5", "uDDC6", "uDDC7",
     "uDDC8", "uDDC9", "uDDCA", "uDDCB", "uDDCC", "uDDCD", "uDDCE", "uDDCF",
     "uDDD0", "uDDD1", "uDDD2", "uDDD3", "uDDD4", "uDDD5", "uDDD6", "uDDD7",
     "uDDD8", "uDDD9", "uDDDA", "uDDDB", "uDDDC", "uDDDD", "uDDDE", "uDDDF",
     "uDDE0", "uDDE1", "uDDE2", "uDDE3", "uDDE4", "uDDE5", "uDDE6", "uDDE7",
     "uDDE8", "uDDE9", "uDDEA", "uDDEB", "uDDEC", "uDDED", "uDDEE", "uDDEF",
     "uDDF0", "uDDF1", "uDDF2", "uDDF3", "uDDF4", "uDDF5", "uDDF6", "uDDF7",
     "uDDF8", "uDDF9", "uDDFA", "uDDFB", "uDDFC", "uDDFD", "uDDFE", "uDDFF",
     "uDE00", "uDE01", "uDE02", "uDE03", "uDE04", "uDE05", "uDE06", "uDE07",
     "uDE08", "uDE09", "uDE0A", "uDE0B", "uDE0C", "uDE0D", "uDE0E", "uDE0F",
     "uDE10", "uDE11", "uDE12", "uDE13", "uDE14", "uDE15", "uDE16", "uDE17",
     "uDE18", "uDE19", "uDE1A", "uDE1B", "uDE1C", "uDE1D", "uDE1E", "uDE1F",
     "uDE20", "uDE21", "uDE22", "uDE23", "uDE24", "uDE25", "uDE26", "uDE27",
     "uDE28", "uDE29", "uDE2A", "uDE2B", "uDE2C", "uDE2D", "uDE2E", "uDE2F",
     "uDE30", "uDE31", "uDE32", "uDE33", "uDE34", "uDE35", "uDE36", "uDE37",
     "uDE38", "uDE39", "uDE3A", "uDE3B", "uDE3C", "uDE3D", "uDE3E", "uDE3F",
     "uDE40", "uDE41", "uDE42", "uDE43", "uDE44", "uDE45", "uDE46", "uDE47",
     "uDE48", "uDE49", "uDE4A", "uDE4B", "uDE4C", "uDE4D", "uDE4E", "uDE4F",
     "uDE50", "uDE51", "uDE52", "uDE53", "uDE54", "uDE55", "uDE56", "uDE57",
     "uDE58", "uDE59", "uDE5A", "uDE5B", "uDE5C", "uDE5D", "uDE5E", "uDE5F",
     "uDE60", "uDE61", "uDE62", "uDE63", "uDE64", "uDE65", "uDE66", "uDE67",
     "uDE68", "uDE69", "uDE6A", "uDE6B", "uDE6C", "uDE6D", "uDE6E", "uDE6F",
     "uDE70", "uDE71", "uDE72", "uDE73", "uDE74", "uDE75", "uDE76", "uDE77",
     "uDE78", "uDE79", "uDE7A", "uDE7B", "uDE7C", "uDE7D", "uDE7E", "uDE7F",
     "uDE80", "uDE81", "uDE82", "uDE83", "uDE84", "uDE85", "uDE86", "uDE87",
     "uDE88", "uDE89", "uDE8A", "uDE8B", "uDE8C", "uDE8D", "uDE8E", "uDE8F",
     "uDE90", "uDE91", "uDE92", "uDE93", "uDE94", "uDE95", "uDE96", "uDE97",
     "uDE98", "uDE99", "uDE9A", "uDE9B", "uDE9C", "uDE9D", "uDE9E", "uDE9F",
     "uDEA0", "uDEA1", "uDEA2", "uDEA3", "uDEA4", "uDEA5", "uDEA6", "uDEA7",
     "uDEA8", "uDEA9", "uDEAA", "uDEAB", "uDEAC", "uDEAD", "uDEAE", "uDEAF",
     "uDEB0", "uDEB1", "uDEB2", "uDEB3", "uDEB4", "uDEB5", "uDEB6", "uDEB7",
     "uDEB8", "uDEB9", "uDEBA", "uDEBB", "uDEBC", "uDEBD", "uDEBE", "uDEBF",
     "uDEC0", "uDEC1", "uDEC2", "uDEC3", "uDEC4", "uDEC5", "uDEC6", "uDEC7",
     "uDEC8", "uDEC9", "uDECA", "uDECB", "uDECC", "uDECD", "uDECE", "uDECF",
     "uDED0", "uDED1", "uDED2", "uDED3", "uDED4", "uDED5", "uDED6", "uDED7",
     "uDED8", "uDED9", "uDEDA", "uDEDB", "uDEDC", "uDEDD", "uDEDE", "uDEDF",
     "uDEE0", "uDEE1", "uDEE2", "uDEE3", "uDEE4", "uDEE5", "uDEE6", "uDEE7",
     "uDEE8", "uDEE9", "uDEEA", "uDEEB", "uDEEC", "uDEED", "uDEEE", "uDEEF",
     "uDEF0", "uDEF1", "uDEF2", "uDEF3", "uDEF4", "uDEF5", "uDEF6", "uDEF7",
     "uDEF8", "uDEF9", "uDEFA", "uDEFB", "uDEFC", "uDEFD", "uDEFE", "uDEFF",
     "uDF00", "uDF01", "uDF02", "uDF03", "uDF04", "uDF05", "uDF06", "uDF07",
     "uDF08", "uDF09", "uDF0A", "uDF0B", "uDF0C", "uDF0D", "uDF0E", "uDF0F",
     "uDF10", "uDF11", "uDF12", "uDF13", "uDF14", "uDF15", "uDF16", "uDF17",
     "uDF18", "uDF19", "uDF1A", "uDF1B", "uDF1C", "uDF1D", "uDF1E", "uDF1F",
     "uDF20", "uDF21", "uDF22", "uDF23", "uDF24", "uDF25", "uDF26", "uDF27",
     "uDF28", "uDF29", "uDF2A", "uDF2B", "uDF2C", "uDF2D", "uDF2E", "uDF2F",
     "uDF30", "uDF31", "uDF32", "uDF33", "uDF34", "uDF35", "uDF36", "uDF37",
     "uDF38", "uDF39", "uDF3A", "uDF3B", "uDF3C", "uDF3D", "uDF3E", "uDF3F",
     "uDF40", "uDF41", "uDF42", "uDF43", "uDF44", "uDF45", "uDF46", "uDF47",
     "uDF48", "uDF49", "uDF4A", "uDF4B", "uDF4C", "uDF4D", "uDF4E", "uDF4F",
     "uDF50", "uDF51", "uDF52", "uDF53", "uDF54", "uDF55", "uDF56", "uDF57",
     "uDF58", "uDF59", "uDF5A", "uDF5B", "uDF5C", "uDF5D", "uDF5E", "uDF5F",
     "uDF60", "uDF61", "uDF62", "uDF63", "uDF64", "uDF65", "uDF66", "uDF67",
     "uDF68", "uDF69", "uDF6A", "uDF6B", "uDF6C", "uDF6D", "uDF6E", "uDF6F",
     "uDF70", "uDF71", "uDF72", "uDF73", "uDF74", "uDF75", "uDF76", "uDF77",
     "uDF78", "uDF79", "uDF7A", "uDF7B", "uDF7C", "uDF7D", "uDF7E", "uDF7F",
     "uDF80", "uDF81", "uDF82", "uDF83", "uDF84", "uDF85", "uDF86", "uDF87",
     "uDF88", "uDF89", "uDF8A", "uDF8B", "uDF8C", "uDF8D", "uDF8E", "uDF8F",
     "uDF90", "uDF91", "uDF92", "uDF93", "uDF94", "uDF95", "uDF96", "uDF97",
     "uDF98", "uDF99", "uDF9A", "uDF9B", "uDF9C", "uDF9D", "uDF9E", "uDF9F",
     "uDFA0", "uDFA1", "uDFA2", "uDFA3", "uDFA4", "uDFA5", "uDFA6", "uDFA7",
     "uDFA8", "uDFA9", "uDFAA", "uDFAB", "uDFAC", "uDFAD", "uDFAE", "uDFAF",
     "uDFB0", "uDFB1", "uDFB2", "uDFB3", "uDFB4", "uDFB5", "uDFB6", "uDFB7",
     "uDFB8", "uDFB9", "uDFBA", "uDFBB", "uDFBC", "uDFBD", "uDFBE", "uDFBF",
     "uDFC0", "uDFC1", "uDFC2", "uDFC3", "uDFC4", "uDFC5", "uDFC6", "uDFC7",
     "uDFC8", "uDFC9", "uDFCA", "uDFCB", "uDFCC", "uDFCD", "uDFCE", "uDFCF",
     "uDFD0", "uDFD1", "uDFD2", "uDFD3", "uDFD4", "uDFD5", "uDFD6", "uDFD7",
     "uDFD8", "uDFD9", "uDFDA", "uDFDB", "uDFDC", "uDFDD", "uDFDE", "uDFDF",
     "uDFE0", "uDFE1", "uDFE2", "uDFE3", "uDFE4", "uDFE5", "uDFE6", "uDFE7",
     "uDFE8", "uDFE9", "uDFEA", "uDFEB", "uDFEC", "uDFED", "uDFEE", "uDFEF",
     "uDFF0", "uDFF1", "uDFF2", "uDFF3", "uDFF4", "uDFF5", "uDFF6", "uDFF7",
     "uDFF8", "uDFF9", "uDFFA", "uDFFB", "uDFFC", "uDFFD", "uDFFE", "uDFFF" >>

\* The case mapping of the supplementary planes: the code points first..last
\* lowercase to themselves plus delta (<<first, last, delta>>)
SupplementaryLower ==
    << <<66560, 66599, 40>>, <<66736, 66771, 40>>, <<66928, 66938, 39>>, <<66940,
     66954, 39>>, <<66956, 66962, 39>>, <<66964, 66965, 39>>, <<68736, 68786,
     64>>, <<68944, 68965, 32>>, <<71840, 71871, 32>>, <<93760, 93791, 32>>,
     <<93856, 93880, 27>>, <<125184, 125217, 34>> >>

\* the cased code points of the supplementary planes that are not
\* case-ignorable (<<first, last>>)
SupplementaryCased ==
    << <<66560, 66639>>, <<66736, 66771>>, <<66776, 66811>>, <<66928, 66938>>,
     <<66940, 66954>>, <<66956, 66962>>, <<66964, 66965>>, <<66967, 66977>>,
     <<66979, 66993>>, <<66995, 67001>>, <<67003, 67004>>, <<68736, 68786>>,
     <<68800, 68850>>, <<68944, 68965>>, <<68976, 68997>>, <<71840, 71903>>,
     <<93760, 93823>>, <<93856, 93880>>, <<93883, 93907>>, <<119808, 119892>>,
     <<119894, 119964>>, <<119966, 119967>>, <<119970, 119970>>, <<119973,
     119974>>, <<119977, 119980>>, <<119982, 119993>>, <<119995, 119995>>,
     <<119997, 120003>>, <<120005, 120069>>, <<120071, 120074>>, <<120077,
     120084>>, <<120086, 120092>>, <<120094, 120121>>, <<120123, 120126>>,
     <<120128, 120132>>, <<120134, 120134>>, <<120138, 120144>>, <<120146,
     120485>>, <<120488, 120512>>, <<120514, 120538>>, <<120540, 120570>>,
     <<120572, 120596>>, <<120598, 120628>>, <<120630, 120654>>, <<120656,
     120686>>, <<120688, 120712>>, <<120714, 120744>>, <<120746, 120770>>,
     <<120772, 120779>>, <<122624, 122633>>, <<122635, 122654>>, <<122661,
     122666>>, <<125184, 125251>>, <<127280, 127305>>, <<127312, 127337>>,
     <<127344, 127369>> >>

\* the case-ignorable code points of the supplementary planes
SupplementaryIgnorable ==
    << <<66045, 66045>>, <<66272, 66272>>, <<66422, 66426>>, <<67456, 67461>>,
       <<67463, 67504>>, <<67506, 67514>>, <<68097, 68099>>, <<68101, 68102>>,
       <<68108, 68111>>, <<68152, 68154>>, <<68159, 68159>>, <<68325, 68326>>,
       <<68900, 68903>>, <<68942, 68942>>, <<68969, 68973>>, <<68975, 68975>>,
       <<69291, 69292>>, <<69317, 69317>>, <<69370, 69375>>, <<69446, 69456>>,
       <<69506, 69509>>, <<69633, 69633>>, <<69688, 69702>>, <<69744, 69744>>,
       <<69747, 69748>>, <<69759, 69761>>, <<69811, 69814>>, <<69817, 69818>>,
       <<69821, 69821>>, <<69826, 69826>>, <<69837, 69837>>, <<69888, 69890>>,
       <<69927, 69931>>, <<69933, 69940>>, <<70003, 70003>>, <<70016, 70017>>,
       <<70070, 70078>>, <<70089, 70092>>, <<70095, 70095>>, <<70191, 70193>>,
       <<70196, 70196>>, <<70198, 70199>>, <<70206, 70206>>, <<70209, 70209>>,
       <<70367, 70367>>, <<70371, 70378>>, <<70400, 70401>>, <<70459, 70460>>,
       <<70464, 70464>>, <<70502, 70508>>, <<70512, 70516>>, <<70587, 70592>>,
       <<70606, 70606>>, <<70608, 70608>>, <<70610, 70610>>, <<70625, 70626>>,
       <<70712, 70719>>, <<70722, 70724>>, <<70726, 70726>>, <<70750, 70750>>,
       <<70835, 70840>>, <<70842, 70842>>, <<70847, 70848>>, <<70850, 70851>>,
       <<71090, 71093>>, <<71100, 71101>>, <<71103, 71104>>, <<71132, 71133>>,
       <<71219, 71226>>, <<71229, 71229>>, <<71231, 71232>>, <<71339, 71339>>,
       <<71341, 71341>>, <<71344, 71349>>, <<71351, 71351>>, <<71453, 71453>>,
       <<71455, 71455>>, <<71458, 71461>>, <<71463, 71467>>, <<71727, 71735>>,
       <<71737, 71738>>, <<71995, 71996>>, <<71998, 71998>>, <<72003, 72003>>,
       <<72148, 72151>>, <<72154, 72155>>, <<72160, 72160>>, <<72193, 72202>>,
       <<72243, 72248>>, <<72251, 72254>>, <<72263, 72263>>, <<72273, 72278>>,
       <<72281, 72283>>, <<72330, 72342>>, <<72344, 72345>>, <<72544, 72544>>,
       <<72546, 72548>>, <<72550, 72550>>, <<72752, 72758>>, <<72760, 72765>>,
       <<72767, 72767>>, <<72850, 72871>>, <<72874, 72880>>, <<72882, 72883>>,
       <<72885, 72886>>, <<73009, 73014>>, <<73018, 73018>>, <<73020, 73021>>,
       <<73023, 73029>>, <<73031, 73031>>, <<73104, 73105>>, <<73109, 73109>>,
       <<73111, 73111>>, <<73177, 73177>>, <<73459, 73460>>, <<73472, 73473>>,
       <<73526, 73530>>, <<73536, 73536>>, <<73538, 73538>>, <<73562, 73562>>,
       <<78896, 78912>>, <<78919, 78933>>, <<90398, 90409>>, <<90413, 90415>>,
       <<92912, 92916>>, <<92976, 92982>>, <<92992, 92995>>, <<93504, 93506>>,
       <<93547, 93548>>, <<94031, 94031>>, <<94095, 94111>>, <<94176, 94177>>,
       <<94179, 94180>>, <<94194, 94195>>, <<110576, 110579>>,
       <<110581, 110587>>, <<110589, 110590>>, <<113821, 113822>>,
       <<113824, 113827>>, <<118528, 118573>>, <<118576, 118598>>,
       <<119143, 119145>>, <<119155, 119170>>, <<119173, 119179>>,
       <<119210, 119213>>, <<119362, 119364>>, <<121344, 121398>>,
       <<121403, 121452>>, <<121461, 121461>>, <<121476, 121476>>,
       <<121499, 121503>>, <<121505, 121519>>, <<122880, 122886>>,
       <<122888, 122904>>, <<122907, 122913>>, <<122915, 122916>>,
       <<122918, 122922>>, <<122928, 122989>>, <<123023, 123023>>,
       <<123184, 123197>>, <<123566, 123566>>, <<123628, 123631>>,
       <<124139, 124143>>, <<124398, 124399>>, <<124643, 124643>>,
       <<124646, 124646>>, <<124654, 124655>>, <<124661, 124661>>,
       <<124671, 124671>>, <<125136, 125142>>, <<125252, 125259>>,
       <<127995, 127999>>, <<917505, 917505>>, <<917536, 917631>>,
       <<917760, 917999>> >>

CaseUpperSet == {CaseUpper[i] : i \in DOMAIN CaseUpper}
HighSurrogates == {Surrogates[i] : i \in 1..1024}
LowSurrogates == {Surrogates[i] : i \in 1025..2048}

\* the cased units that are not case-ignorable
Cased ==
    {UpperCase[i] : i \in DOMAIN UpperCase}
        \cup {LowerCase[i] : i \in DOMAIN LowerCase}
        \cup CaseUpperSet \cup {CaseLower[i] : i \in DOMAIN CaseLower}
        \cup {"u0130"} \cup OtherCased

\* the value of a surrogate unit
UnitValue(u) == 55295 + (CHOOSE i \in DOMAIN Surrogates : Surrogates[i] = u)

\* the units at i and i + 1 are a surrogate pair: one code point of a
\* supplementary plane
PairAt(s, i) ==
    /\ i >= 1 /\ i < Len(s)
    /\ s[i] \in HighSurrogates /\ s[i + 1] \in LowSurrogates

\* the code point of a surrogate pair, and the pair of a code point
CodePoint(high, low) ==
    65536 + (UnitValue(high) - 55296) * 1024 + (UnitValue(low) - 56320)
PairOf(cp) ==
    <<Surrogates[((cp - 65536) \div 1024) + 1],
      Surrogates[1025 + ((cp - 65536) % 1024)]>>

InRanges(cp, ranges) ==
    \E k \in DOMAIN ranges : ranges[k][1] <= cp /\ cp <= ranges[k][2]

\* the lowercase of one unit that is not half of a surrogate pair
LowerOf(c) ==
    IF \E i \in 1..26 : UpperCase[i] = c
    THEN <<LowerCase[CHOOSE i \in 1..26 : UpperCase[i] = c]>>
    ELSE IF c = "u0130" THEN <<"i", "u0307">>
    ELSE IF c \in CaseUpperSet
    THEN <<CaseLower[CHOOSE i \in DOMAIN CaseUpper : CaseUpper[i] = c]>>
    ELSE <<c>>

\* the lowercase of a surrogate pair
LowerOfPair(high, low) ==
    LET cp == CodePoint(high, low)
    IN  IF InRanges(cp, SupplementaryLower)
        THEN PairOf(cp + SupplementaryLower[
                 CHOOSE k \in DOMAIN SupplementaryLower :
                     SupplementaryLower[k][1] <= cp
                         /\ cp <= SupplementaryLower[k][2]][3])
        ELSE <<high, low>>

\* the nearest index from j backwards (forwards) whose code point is not
\* case-ignorable: 0 (Len(s) + 1) when there is none.  Going backwards the
\* index is that of the last unit of the code point.
RECURSIVE SkipBack(_, _)
SkipBack(s, j) ==
    IF PairAt(s, j - 1)
    THEN IF InRanges(CodePoint(s[j - 1], s[j]), SupplementaryIgnorable)
         THEN SkipBack(s, j - 2)
         ELSE j
    ELSE IF j >= 1 /\ s[j] \in CaseIgnorable THEN SkipBack(s, j - 1) ELSE j
RECURSIVE SkipForward(_, _)
SkipForward(s, j) ==
    IF PairAt(s, j)
    THEN IF InRanges(CodePoint(s[j], s[j + 1]), SupplementaryIgnorable)
         THEN SkipForward(s, j + 2)
         ELSE j
    ELSE IF j <= Len(s) /\ s[j] \in CaseIgnorable THEN SkipForward(s, j + 1) ELSE j

\* the code point that ends at j (starts at j) is a cased letter
CasedEndingAt(s, j) ==
    IF PairAt(s, j - 1)
    THEN InRanges(CodePoint(s[j - 1], s[j]), SupplementaryCased)
    ELSE j >= 1 /\ s[j] \in Cased
CasedStartingAt(s, j) ==
    IF PairAt(s, j)
    THEN InRanges(CodePoint(s[j], s[j + 1]), SupplementaryCased)
    ELSE j <= Len(s) /\ s[j] \in Cased

\* Final_Sigma: the capital sigma at i follows a cased letter and no cased
\* letter follows it, case-ignorable code points between them set aside
FinalSigma(s, i) ==
    /\ CasedEndingAt(s, SkipBack(s, i - 1))
    /\ ~CasedStartingAt(s, SkipForward(s, i + 1))

\* the lowercase of s from index i on, code point by code point: a surrogate
\* pair is one code point, a surrogate outside a pair is kept
RECURSIVE lowerFrom(_, _)
lowerFrom(s, i) ==
    IF i > Len(s) THEN << >>
    ELSE IF PairAt(s, i)
    THEN LowerOfPair(s[i], s[i + 1]) \o lowerFrom(s, i + 2)
    ELSE IF s[i] = "u03A3" /\ FinalSigma(s, i)
    THEN <<"u03C2">> \o lowerFrom(s, i + 1)
    ELSE LowerOf(s[i]) \o lowerFrom(s, i + 1)

\* String.prototype.toLowerCase
toLowerCase(s) == lowerFrom(s, 1)

\* WhiteSpace and LineTerminator of ECMAScript: TAB, LF, VT, FF, CR, space,
\* NBSP, the other space separators, LS, PS and the byte order mark
WhiteSpace ==
    {"\t", "\n", "u000B", "\f", "u000C", "\r", " ", "u00A0", "u1680", "u2000",
     "u2001", "u2002", "u2003", "u2004", "u2005", "u2006", "u2007", "u2008",
     "u2009", "u200A", "u2028", "u2029", "u202F", "u205F", "u3000", "uFEFF"}

\* String.prototype.trimStart, trimEnd and trim
RECURSIVE trimStart(_)
trimStart(s) ==
    IF s # << >> /\ Head(s) \in WhiteSpace THEN trimStart(Tail(s)) ELSE s

RECURSIVE trimEnd(_)
trimEnd(s) ==
    IF s # << >> /\ s[Len(s)] \in WhiteSpace
    THEN trimEnd(SubSeq(s, 1, Len(s) - 1))
    ELSE s

trim(s) == trimEnd(trimStart(s))

\* A JavaScript number of the model: an integer, or NaN
NaN == [nan |-> TRUE, val |-> 0]
Num(n) == [nan |-> FALSE, val |-> n]

\* a <= b, a < b and a > b on numbers: false when either is NaN
LessEq(a, b) == ~a.nan /\ ~b.nan /\ a.val <= b.val
Less(a, b) == ~a.nan /\ ~b.nan /\ a.val < b.val
Greater(a, b) == ~a.nan /\ ~b.nan /\ a.val > b.val

\* ToIntegerOrInfinity, which slice applies to its arguments: NaN is 0
ToIntegerOrInfinity(n) == IF n.nan THEN 0 ELSE n.val

\* Number-to-string conversion of an integer or NaN
NumberText(n) ==
    IF n.nan THEN <<"N", "a", "N">>
    ELSE IF n.val < 0 THEN <<"-">> \o NumberToString(-n.val)
    ELSE NumberToString(n.val)

\* the longest prefix of s made of decimal digits
RECURSIVE DigitPrefix(_)
DigitPrefix(s) ==
    IF s # << >> /\ \E d \in 1..10 : DigitChar[d] = Head(s)
    THEN <<Head(s)>> \o DigitPrefix(Tail(s))
    ELSE << >>

\* the value of a string of decimal digits
RECURSIVE DigitsValue(_)
DigitsValue(s) ==
    IF Len(s) = 0 THEN 0
    ELSE 10 * DigitsValue(SubSeq(s, 1, Len(s) - 1))
         + ((CHOOSE d \in 1..10 : DigitChar[d] = s[Len(s)]) - 1)

\* parseInt(s, 10): leading white space is skipped, then an optional sign,
\* then the longest run of decimal digits; NaN when there is no digit
parseInt(s) ==
    LET t      == trimStart(s)
        signed == t # << >> /\ Head(t) \in {"+", "-"}
        digits == DigitPrefix(IF signed THEN Tail(t) ELSE t)
    IN  IF digits = << >> THEN NaN
        ELSE IF signed /\ Head(t) = "-" THEN Num(0 - DigitsValue(digits))
        ELSE Num(DigitsValue(digits))

---------------------------------------------------------------------------
(* LlmFilter (src/src/llm-filter.ts) *)

\* '\n\n[截断，原始长度: '
TruncateMarkerHead ==
    <<"\n", "\n", "[", "u622A", "u65AD", "uFF0C", "u539F", "u59CB", "u957F",
      "u5EA6", ":", " ">>
\* ' 字符]'
MarkerTail == <<" ", "u5B57", "u7B26", "]">>

\* the marker appended by truncate to a content of length n
TruncateMarker(n) == TruncateMarkerHead \o NumberToString(n) \o MarkerTail

\* '\n\n[内容已截断用于摘要，原始长度: '
SummarizeMarkerHead ==
    <<"\n", "\n", "[", "u5185", "u5BB9", "u5DF2", "u622A", "u65AD", "u7528",
      "u4E8E", "u6458", "u8981", "uFF0C", "u539F", "u59CB", "u957F", "u5EA6",
      ":", " ">>

\* const maxLlmInput = 200000
maxLlmInput == 200000

\* truncate with the marker put before the kept content
truncateMarkerFirst(cfg, content) ==
    IF LessEq(Num(Len(content)), cfg.maxResponseChars)
    THEN content
    ELSE TruncateMarker(Len(content))
         \o slice(content, 0, ToIntegerOrInfinity(cfg.maxResponseChars))

\* LlmFilter.truncate
truncate(cfg, content) ==
    IF LessEq(Num(Len(content)), cfg.maxResponseChars)
    THEN content
    ELSE slice(content, 0, ToIntegerOrInfinity(cfg.maxResponseChars))
         \o TruncateMarker(Len(content))

\* What chat.completions.create can do: reject, or resolve to a response
\* with no choice, with a null content or with a content string.  Until it
\* does, the caller is suspended at its await: LlmPending.
LlmPending  == [kind |-> "pending",   content |-> << >>]
LlmThrows   == [kind |-> "throws",    content |-> << >>]
LlmNoChoice == [kind |-> "nochoices", content |-> << >>]
LlmNull     == [kind |-> "null",      content |-> << >>]
LlmContent(s) == [kind |-> "content", content |-> s]

\* response.choices[0]?.message?.content || ''
ContentOrEmpty(llm) == IF llm.kind = "content" THEN llm.content ELSE << >>

\* The outcome of a filter call: the text the promise resolves to, the
\* requests sent to the completion API (none or one), and whether the promise
\* rejects instead of resolving.  A call suspended at
\* 'await this.client.chat.completions.create' has not settled.
FilterResult(text, requests) ==
    [text |-> text, requests |-> requests, threw |-> FALSE, settled |-> TRUE]
FilterRejects(requests) ==
    [text |-> << >>, requests |-> requests, threw |-> TRUE, settled |-> TRUE]
FilterAwaits(requests) ==
    [text |-> << >>, requests |-> requests, threw |-> FALSE, settled |-> FALSE]

\* The request summarize builds: which system prompt, the user message, and
\* the budget the prompt states (`${this.filterConfig.maxResponseChars}`).
SummarizeRequest(cfg, content, purpose) ==
    [ prompt    |-> IF purpose # << >> THEN "purpose" ELSE "generic",
      input     |-> IF Len(content) > maxLlmInput
                    THEN slice(content, 0, maxLlmInput) \o SummarizeMarkerHead
                         \o NumberToString(Len(content)) \o MarkerTail
                    ELSE content,
      maxChars  |-> NumberText(cfg.maxResponseChars) ]

\* LlmFilter.summarize; llm is what the completion API has done: with
\* LlmPending the call has run up to its await, with an outcome it has run
\* to its end
summarize(cfg, client, content, purpose, llm) ==
    IF ~client
    THEN FilterResult(truncate(cfg, content), << >>)
    ELSE LET request == SummarizeRequest(cfg, content, purpose)
             summary == ContentOrEmpty(llm)
         IN  IF llm.kind = "pending"
             THEN FilterAwaits(<<request>>)
             ELSE IF llm.kind = "throws"
             THEN FilterResult(truncate(cfg, content), <<request>>)
             ELSE FilterResult(IF summary # << >> THEN summary
                                                  ELSE truncate(cfg, content),
                               <<request>>)

\* filter with the length checks taken before the forceLlmFilter check
filterLengthFirst(cfg, client, content, purpose, llm) ==
    IF ~cfg.enabled \/ ~client
    THEN FilterResult(truncate(cfg, content), << >>)
    ELSE IF LessEq(Num(Len(content)), cfg.maxResponseChars)
    THEN FilterResult(content, << >>)
    ELSE IF cfg.forceLlmFilter
    THEN summarize(cfg, client, content, purpose, llm)
    ELSE IF Less(Num(Len(content)), cfg.summarizeThreshold)
    THEN FilterResult(truncate(cfg, content), << >>)
    ELSE summarize(cfg, client, content, purpose, llm)

\* filter with "<" for "<=" in the short-content check
filterStrictShort(cfg, client, content, purpose, llm) ==
    IF ~cfg.enabled \/ ~client
    THEN FilterResult(truncate(cfg, content), << >>)
    ELSE IF cfg.forceLlmFilter
    THEN summarize(cfg, client, content, purpose, llm)
    ELSE IF Less(Num(Len(content)), cfg.maxResponseChars)
    THEN FilterResult(content, << >>)
    ELSE IF Less(Num(Len(content)), cfg.summarizeThreshold)
    THEN FilterResult(truncate(cfg, content), << >>)
    ELSE summarize(cfg, client, content, purpose, llm)

\* filter with "<=" for "<" in the summarize-threshold check
filterThresholdInclusive(cfg, client, content, purpose, llm) ==
    IF ~cfg.enabled \/ ~client
    THEN FilterResult(truncate(cfg, content), << >>)
    ELSE IF cfg.forceLlmFilter
    THEN summarize(cfg, client, content, purpose, llm)
    ELSE IF LessEq(Num(Len(content)), cfg.maxResponseChars)
    THEN FilterResult(content, << >>)
    ELSE IF LessEq(Num(Len(content)), cfg.summarizeThreshold)
    THEN FilterResult(truncate(cfg, content), << >>)
    ELSE summarize(cfg, client, content, purpose, llm)

\* filter that never summarizes when summarizeThreshold is above
\* maxResponseChars
filterThresholdAboveDisables(cfg, client, content, purpose, llm) ==
    IF ~cfg.enabled \/ ~client
    THEN FilterResult(truncate(cfg, content), << >>)
    ELSE IF cfg.forceLlmFilter
    THEN summarize(cfg, client, content, purpose, llm)
    ELSE IF LessEq(Num(Len(content)), cfg.maxResponseChars)
    THEN FilterResult(content, << >>)
    ELSE IF Less(Num(Len(content)), cfg.summarizeThreshold)
            \/ Greater(cfg.summarizeThreshold, cfg.maxResponseChars)
    THEN FilterResult(truncate(cfg, content), << >>)
    ELSE summarize(cfg, client, content, purpose, llm)

\* LlmFilter.filter; an undefined purpose is the empty string (the code only
\* tests its truthiness)
filter(cfg, client, content, purpose, llm) ==
    IF ~cfg.enabled \/ ~client
    THEN FilterResult(truncate(cfg, content), << >>)
    ELSE IF cfg.forceLlmFilter
    THEN summarize(cfg, client, content, purpose, llm)
    ELSE IF LessEq(Num(Len(content)), cfg.maxResponseChars)
    THEN FilterResult(content, << >>)
    ELSE IF Less(Num(Len(content)), cfg.summarizeThreshold)
    THEN FilterResult(truncate(cfg, content), << >>)
    ELSE summarize(cfg, client, content, purpose, llm)

---------------------------------------------------------------------------
(* The filter applied to bounded inputs *)

Alphabet == {"a", "b"}
Contents == StringsUpTo(Alphabet, MaxLen)
Purposes == {<< >>, <<"p">>}

\* FilterConfig: loadConfig stores what parseInt returns, an integer of
\* either sign or NaN
Budgets(max) == {NaN} \cup {Num(n) : n \in (0 - MaxNegative)..max}
FilterConfigs ==
    [ enabled            : BOOLEAN,
      maxResponseChars   : Budgets(MaxChars),
      summarizeThreshold : Budgets(MaxThreshold),
      forceLlmFilter     : BOOLEAN ]

\* Answers of the completion API: a failure, the three empty answers, a
\* short summary and one longer than any budget of the model
Summaries == {<<"s">>, [i \in 1..(MaxChars + 2) |-> "s"]}
LlmOutcomes ==
    {LlmThrows, LlmNoChoice, LlmNull, LlmContent(<< >>)}
        \cup {LlmContent(s) : s \in Summaries}

NoCall == [made |-> FALSE]

FilterInit ==
    /\ filterConfig \in FilterConfigs
    /\ llmClient \in BOOLEAN
    /\ filterCall = NoCall
    /\ env = << >>
    /\ cfgPhase = "idle"
    /\ config = [loaded |-> FALSE]
    /\ validation = [done |-> FALSE]
    /\ ServerIdle

\* a call of LlmFilter.filter is suspended at the await of summarize
FilterAwaiting == ~filterCall.made /\ "out" \in DOMAIN filterCall

\* a call of LlmFilter.filter on a fresh content (the filter keeps no state
\* between calls): it runs to its return, or to the await of summarize
Filter(content, purpose) ==
    /\ filterCall = NoCall
    /\ LET out == filter(filterConfig, llmClient, content, purpose, LlmPending)
       IN  filterCall' = [ made    |-> out.settled,
                           content |-> content,
                           purpose |-> purpose,
                           llm     |-> LlmPending,
                           out     |-> out ]
    /\ UNCHANGED <<filterConfig, llmClient>>
    /\ UNCHANGED configVars
    /\ UNCHANGED serverVars

\* a second call of LlmFilter.filter, on the text the first call returned and
\* for the same purpose (a caller sending a filtered response through the
\* filter once more)
FilterAgain ==
    /\ filterCall.made
    /\ "first" \notin DOMAIN filterCall
    /\ LET out == filter(filterConfig, llmClient, filterCall.out.text,
                         filterCall.purpose, LlmPending)
       IN  filterCall' = [ made    |-> out.settled,
                           first   |-> filterCall.content,
                           content |-> filterCall.out.text,
                           purpose |-> filterCall.purpose,
                           llm     |-> LlmPending,
                           out     |-> out ]
    /\ UNCHANGED <<filterConfig, llmClient>>
    /\ UNCHANGED configVars
    /\ UNCHANGED serverVars

\* chat.completions.create settles and the suspended call runs from its
\* await to its return
FilterAnswered(llm) ==
    /\ FilterAwaiting
    /\ filterCall' = [ filterCall EXCEPT
                           !.made = TRUE,
                           !.llm  = llm,
                           !.out  = filter(filterConfig, llmClient,
                                           filterCall.content,
                                           filterCall.purpose, llm) ]
    /\ UNCHANGED <<filterConfig, llmClient>>
    /\ UNCHANGED configVars
    /\ UNCHANGED serverVars

FilterNext ==
    \/ \E content \in Contents, purpose \in Purposes : Filter(content, purpose)
    \/ FilterAgain
    \/ \E llm \in LlmOutcomes : FilterAnswered(llm)

SpecFilter == FilterInit /\ [][FilterNext]_vars

---------------------------------------------------------------------------
(* JSON.parse on the environment-override texts of the model *)

\* A JavaScript value that JSON can hold, or undefined.  str is the text of a
\* string, num an integer, bool a boolean, entries the properties of a parsed
\* object by key, items the elements of an array or the properties of an
\* object in their enumeration order.
JsonValue(type) ==
    [type |-> type, str |-> << >>, num |-> 0, bool |-> FALSE, entries |-> << >>,
     negative |-> FALSE, digits |-> << >>, point |-> 0, items |-> << >>]

JsonString(s) == [JsonValue("string") EXCEPT !.str = s]
\* an integer
JsonNumber(n) == [JsonValue("number") EXCEPT !.num = n]
\* A finite number other than 0 by its shortest decimal digits d1 ... dk (d1
\* and dk not 0), each 0..9: its value is 0.d1...dk times 10 to the point,
\* negated when negative.  1.5 is JsonDecimal(FALSE, <<1, 5>>, 1).
JsonDecimal(negative, digits, point) ==
    [JsonValue("number") EXCEPT !.negative = negative, !.digits = digits,
                                !.point = point]
\* NaN, Infinity and -Infinity, by their names
JsonNotFinite(name) == [JsonValue("number") EXCEPT !.str = name]
JsonBoolean(b) == [JsonValue("boolean") EXCEPT !.bool = b]
JsonNull == JsonValue("null")
\* the array without elements, and an array by its elements
JsonArray == JsonValue("array")
JsonArrayOf(items) == [JsonValue("array") EXCEPT !.items = items]
\* an object JSON.parse gave: entries maps each key to its value
JsonObject(entries) == [JsonValue("object") EXCEPT !.entries = entries]
\* an object by its properties in enumeration order
Member(key, value) == [key |-> key, value |-> value]
JsonObjectOf(members) == [JsonValue("object") EXCEPT !.items = members]
\* undefined: JSON.stringify leaves out a property that holds it
JsonUndefined == JsonValue("undefined")

NoEntries == [k \in {} |-> JsonNull]

\* {"A":1}
TextNonString == <<"{", "\"", "A", "\"", ":", "1", "}">>
\* {"A":"x"}
TextAllString == <<"{", "\"", "A", "\"", ":", "\"", "x", "\"", "}">>
\* {"A":"x","B":1}
TextMixed ==
    <<"{", "\"", "A", "\"", ":", "\"", "x", "\"", ",", "\"", "B", "\"", ":",
      "1", "}">>
\* {}
TextEmptyObject == <<"{", "}">>
\* ["x"]
TextArray == <<"[", "\"", "x", "\"", "]">>
\* null
TextNull == <<"n", "u", "l", "l">>
\* 0
TextZero == <<"0">>
\* {A
TextInvalid == <<"{", "A">>
\* {"A":"x;y"}
TextSemicolon == <<"{", "\"", "A", "\"", ":", "\"", "x", ";", "y", "\"", "}">>
\* {"A":"x  and  y"} : the two halves of TextSemicolon split at ';'
TextHalfLeft == <<"{", "\"", "A", "\"", ":", "\"", "x">>
TextHalfRight == <<"y", "\"", "}">>

ParseOk(v) == [ok |-> TRUE, value |-> v]
ParseThrows == [ok |-> FALSE, value |-> JsonNull]

\* JSON.parse(text), for the texts above (any other text is an error of the
\* model, not a parse failure)
JSONParse(text) ==
    CASE text = TextNonString   -> ParseOk(JsonObject([k \in {"A"} |-> JsonNumber(1)]))
      [] text = TextAllString   -> ParseOk(JsonObject([k \in {"A"} |-> JsonString(<<"x">>)]))
      [] text = TextMixed       ->
            ParseOk(JsonObject([k \in {"A", "B"} |->
                        IF k = "A" THEN JsonString(<<"x">>) ELSE JsonNumber(1)]))
      [] text = TextEmptyObject -> ParseOk(JsonObject(NoEntries))
      [] text = TextArray       -> ParseOk(JsonArray)
      [] text = TextNull        -> ParseOk(JsonNull)
      [] text = TextZero        -> ParseOk(JsonNumber(0))
      [] text = TextSemicolon   ->
            ParseOk(JsonObject([k \in {"A"} |-> JsonString(<<"x", ";", "y">>)]))
      [] text = TextInvalid     -> ParseThrows
      [] text = TextHalfLeft    -> ParseThrows
      [] text = TextHalfRight   -> ParseThrows

\* the truthiness of a parsed value (parsed && ...)
JsonTruthy(v) ==
    CASE v.type \in {"null", "undefined"} -> FALSE
      [] v.type = "number"  -> \/ v.num # 0
                               \/ v.digits # << >>
                               \/ v.str \notin {<< >>, <<"N", "a", "N">>}
      [] v.type = "string"  -> v.str # << >>
      [] v.type = "boolean" -> v.bool
      [] OTHER              -> TRUE

\* typeof value
TypeOf(v) == IF v.type \in {"null", "array", "object"} THEN "object" ELSE v.type

---------------------------------------------------------------------------
(* Configuration (src/src/config.ts, lines 1-315) *)

\* for (let i = 1; i <= 20; i++)
MaxNumbered == 20

LitStdio == <<"s", "t", "d", "i", "o">>
LitHttp == <<"h", "t", "t", "p">>
LitNone == <<"n", "o", "n", "e">>
LitFalse == <<"f", "a", "l", "s", "e">>
LitTrue == <<"t", "r", "u", "e">>
LitDefaultModel == <<"g", "p", "t", "-", "4", "o", "-", "m", "i", "n", "i">>
LitOpenRouterUrl ==
    <<"h", "t", "t", "p", "s", ":", "/", "/", "o", "p", "e", "n", "r", "o", "u",
      "t", "e", "r", ".", "a", "i", "/", "a", "p", "i", "/", "v", "1">>
LitAuthorization ==
    <<"A", "u", "t", "h", "o", "r", "i", "z", "a", "t", "i", "o", "n">>
LitHeader == <<"h", "e", "a", "d", "e", "r">>
LitDefaultMaxChars == <<"1", "0", "0", "0", "0">>
LitDefaultThreshold == <<"5", "0", "0", "0">>

\* process.env[key]
EnvGet(e, key) == IF key \in DOMAIN e THEN Def(e[key]) ELSE Undef

\* a || b on strings that may be undefined
OrElse(a, b) == IF Truthy(a) THEN a ELSE b

\* process.env.KEY?.split(';') || []
SplitOrEmpty(e, key) ==
    IF key \in DOMAIN e THEN split(e[key], ";") ELSE << >>

\* `MCP_${i}_` + field
NumberedKey(i, field) == "MCP_" \o ToString(i) \o "_" \o field
OpenapiKey(i, field) == "OPENAPI_" \o ToString(i) \o "_" \o field

\* What the environment-override block gives: the env map (or undefined), the
\* warnings it logs, and whether it lets an exception escape.
EnvParsed(envMap, warnings) ==
    [env |-> envMap, warnings |-> warnings, threw |-> FALSE]

\* the string-valued entries of a parsed object, and a warning for each other
StringEntries(obj) ==
    LET keep == {k \in DOMAIN obj.entries : obj.entries[k].type = "string"}
    IN  [k \in keep |-> obj.entries[k].str]
NonStringWarnings(obj) ==
    {<<"non-string value", k>> :
        k \in {k \in DOMAIN obj.entries : obj.entries[k].type # "string"}}

\* the block without its try/catch
parseEnvJsonNoCatch(envJson) ==
    IF ~Truthy(envJson)
    THEN EnvParsed(Undef, {})
    ELSE LET r == JSONParse(envJson.val)
         IN  IF ~r.ok
             THEN [env |-> Undef, warnings |-> {}, threw |-> TRUE]
             ELSE IF JsonTruthy(r.value) /\ TypeOf(r.value) = "object"
                     /\ r.value.type # "array"
             THEN EnvParsed(Def(StringEntries(r.value)),
                            NonStringWarnings(r.value))
             ELSE EnvParsed(Undef, {<<"not an object", "">>})

\* The environment-override block of parseNumberedMcpConfig (lines 145-166),
\* repeated word for word in parseLegacyMcpConfig (lines 215-237).
parseEnvJson(envJson) ==
    IF ~Truthy(envJson)
    THEN EnvParsed(Undef, {})
    ELSE LET r == JSONParse(envJson.val)
         IN  IF ~r.ok
             THEN EnvParsed(Undef, {<<"parse failed", "">>})
             ELSE IF JsonTruthy(r.value) /\ TypeOf(r.value) = "object"
                     /\ r.value.type # "array"
             THEN EnvParsed(Def(StringEntries(r.value)),
                            NonStringWarnings(r.value))
             ELSE EnvParsed(Undef, {<<"not an object", "">>})

\* What a parser gives: the providers, the warnings logged and whether an
\* exception escaped.
Parsed(mcps, warnings, threw) ==
    [mcps |-> mcps, warnings |-> warnings, threw |-> threw]

JoinParsed(a, b) ==
    Parsed(a.mcps \o b.mcps, a.warnings \cup b.warnings, a.threw \/ b.threw)

\* the round taking the transport from MCP_<i>_TRANSPORT alone, whatever the
\* command
numberedMcpTransportOnly(e, i) ==
    LET name      == EnvGet(e, NumberedKey(i, "NAME"))
        url       == EnvGet(e, NumberedKey(i, "URL"))
        command   == EnvGet(e, NumberedKey(i, "COMMAND"))
        argsStr   == EnvGet(e, NumberedKey(i, "ARGS"))
        transport == EnvGet(e, NumberedKey(i, "TRANSPORT"))
        authType  == EnvGet(e, NumberedKey(i, "AUTH_TYPE"))
        authToken == EnvGet(e, NumberedKey(i, "AUTH_TOKEN"))
        envJson   == EnvGet(e, NumberedKey(i, "ENV_JSON"))
        isStdio   == transport = Def(LitStdio)
        parsed    == parseEnvJson(envJson)
    IN  IF ~Truthy(name)
        THEN Parsed(<< >>, {}, FALSE)
        ELSE Parsed(
               << [ name      |-> name.val,
                    url       |-> url,
                    transport |-> IF isStdio THEN "stdio" ELSE "http",
                    command   |-> command,
                    args      |-> IF Truthy(argsStr)
                                  THEN Def(split(argsStr.val, ","))
                                  ELSE Undef,
                    authType  |-> OrElse(authType, Def(LitNone)).val,
                    authKey   |-> Undef,
                    authToken |-> authToken,
                    env       |-> parsed.env ] >>,
               {<<NumberedKey(i, "ENV_JSON"), w>> : w \in parsed.warnings},
               parsed.threw)

\* one round of the loop of parseNumberedMcpConfig
numberedMcp(e, i) ==
    LET name      == EnvGet(e, NumberedKey(i, "NAME"))
        url       == EnvGet(e, NumberedKey(i, "URL"))
        command   == EnvGet(e, NumberedKey(i, "COMMAND"))
        argsStr   == EnvGet(e, NumberedKey(i, "ARGS"))
        transport == EnvGet(e, NumberedKey(i, "TRANSPORT"))
        authType  == EnvGet(e, NumberedKey(i, "AUTH_TYPE"))
        authToken == EnvGet(e, NumberedKey(i, "AUTH_TOKEN"))
        envJson   == EnvGet(e, NumberedKey(i, "ENV_JSON"))
        isStdio   == transport = Def(LitStdio) \/ Truthy(command)
        parsed    == parseEnvJson(envJson)
    IN  IF ~Truthy(name)
        THEN Parsed(<< >>, {}, FALSE)
        ELSE Parsed(
               << [ name      |-> name.val,
                    url       |-> url,
                    transport |-> IF isStdio THEN "stdio" ELSE "http",
                    command   |-> command,
                    args      |-> IF Truthy(argsStr)
                                  THEN Def(split(argsStr.val, ","))
                                  ELSE Undef,
                    authType  |-> OrElse(authType, Def(LitNone)).val,
                    authKey   |-> Undef,
                    authToken |-> authToken,
                    env       |-> parsed.env ] >>,
               {<<NumberedKey(i, "ENV_JSON"), w>> : w \in parsed.warnings},
               parsed.threw)

RECURSIVE numberedFrom(_, _)
numberedFrom(e, i) ==
    IF i > MaxNumbered
    THEN Parsed(<< >>, {}, FALSE)
    ELSE JoinParsed(numberedMcp(e, i), numberedFrom(e, i + 1))

\* parseNumberedMcpConfig
parseNumberedMcpConfig(e) == numberedFrom(e, 1)

\* the round taking the i-th of the non-empty names, not the name at position i
legacyMcpCompactedNames(e, i) ==
    LET mcpUrls       == SplitOrEmpty(e, "MCP_URL")
        nonEmpty(n)   == n # << >>
        mcpNames      == SelectSeq(SplitOrEmpty(e, "MCP_NAME"), nonEmpty)
        mcpTransports == SplitOrEmpty(e, "MCP_TRANSPORT")
        mcpAuthTypes  == SplitOrEmpty(e, "MCP_AUTH_TYPE")
        mcpAuthKeys   == SplitOrEmpty(e, "MCP_AUTH_KEY")
        mcpAuthTokens == SplitOrEmpty(e, "MCP_AUTH_TOKEN")
        mcpCommands   == SplitOrEmpty(e, "MCP_COMMAND")
        mcpArgsArray  == SplitOrEmpty(e, "MCP_ARGS")
        mcpEnvJsons   == SplitOrEmpty(e, "MCP_ENV_JSON")
        transport     == OrElse(At(mcpTransports, i), Def(LitHttp))
        command       == At(mcpCommands, i)
        isStdio       == transport = Def(LitStdio) \/ Truthy(command)
        name          == At(mcpNames, i)
        parsed        == parseEnvJson(At(mcpEnvJsons, i))
        argsStr       == At(mcpArgsArray, i)
    IN  IF ~Truthy(name)
        THEN Parsed(<< >>, {}, FALSE)
        ELSE Parsed(
               << [ name      |-> name.val,
                    url       |-> At(mcpUrls, i),
                    transport |-> IF isStdio THEN "stdio" ELSE "http",
                    command   |-> command,
                    args      |-> IF argsStr.def
                                  THEN Def(split(argsStr.val, ","))
                                  ELSE Undef,
                    authType  |-> OrElse(At(mcpAuthTypes, i), Def(LitNone)).val,
                    authKey   |-> At(mcpAuthKeys, i),
                    authToken |-> At(mcpAuthTokens, i),
                    env       |-> parsed.env ] >>,
               {<<"MCP_ENV_JSON", i, w>> : w \in parsed.warnings},
               parsed.threw)

\* the round in which an explicit transport entry wins over the command
legacyMcpExplicitTransport(e, i) ==
    LET mcpUrls       == SplitOrEmpty(e, "MCP_URL")
        mcpNames      == SplitOrEmpty(e, "MCP_NAME")
        mcpTransports == SplitOrEmpty(e, "MCP_TRANSPORT")
        mcpAuthTypes  == SplitOrEmpty(e, "MCP_AUTH_TYPE")
        mcpAuthKeys   == SplitOrEmpty(e, "MCP_AUTH_KEY")
        mcpAuthTokens == SplitOrEmpty(e, "MCP_AUTH_TOKEN")
        mcpCommands   == SplitOrEmpty(e, "MCP_COMMAND")
        mcpArgsArray  == SplitOrEmpty(e, "MCP_ARGS")
        mcpEnvJsons   == SplitOrEmpty(e, "MCP_ENV_JSON")
        transport     == OrElse(At(mcpTransports, i), Def(LitHttp))
        command       == At(mcpCommands, i)
        isStdio       == IF Truthy(At(mcpTransports, i))
                         THEN transport = Def(LitStdio)
                         ELSE Truthy(command)
        name          == At(mcpNames, i)
        parsed        == parseEnvJson(At(mcpEnvJsons, i))
        argsStr       == At(mcpArgsArray, i)
    IN  IF ~Truthy(name)
        THEN Parsed(<< >>, {}, FALSE)
        ELSE Parsed(
               << [ name      |-> name.val,
                    url       |-> At(mcpUrls, i),
                    transport |-> IF isStdio THEN "stdio" ELSE "http",
                    command   |-> command,
                    args      |-> IF argsStr.def
                                  THEN Def(split(argsStr.val, ","))
                                  ELSE Undef,
                    authType  |-> OrElse(At(mcpAuthTypes, i), Def(LitNone)).val,
                    authKey   |-> At(mcpAuthKeys, i),
                    authToken |-> At(mcpAuthTokens, i),
                    env       |-> parsed.env ] >>,
               {<<"MCP_ENV_JSON", i, w>> : w \in parsed.warnings},
               parsed.threw)

\* one round of the loop of parseLegacyMcpConfig (i is 0-based)
legacyMcp(e, i) ==
    LET mcpUrls       == SplitOrEmpty(e, "MCP_URL")
        mcpNames      == SplitOrEmpty(e, "MCP_NAME")
        mcpTransports == SplitOrEmpty(e, "MCP_TRANSPORT")
        mcpAuthTypes  == SplitOrEmpty(e, "MCP_AUTH_TYPE")
        mcpAuthKeys   == SplitOrEmpty(e, "MCP_AUTH_KEY")
        mcpAuthTokens == SplitOrEmpty(e, "MCP_AUTH_TOKEN")
        mcpCommands   == SplitOrEmpty(e, "MCP_COMMAND")
        mcpArgsArray  == SplitOrEmpty(e, "MCP_ARGS")
        mcpEnvJsons   == SplitOrEmpty(e, "MCP_ENV_JSON")
        transport     == OrElse(At(mcpTransports, i), Def(LitHttp))
        command       == At(mcpCommands, i)
        isStdio       == transport = Def(LitStdio) \/ Truthy(command)
        name          == At(mcpNames, i)
        parsed        == parseEnvJson(At(mcpEnvJsons, i))
        argsStr       == At(mcpArgsArray, i)
    IN  IF ~Truthy(name)
        THEN Parsed(<< >>, {}, FALSE)
        ELSE Parsed(
               << [ name      |-> name.val,
                    url       |-> At(mcpUrls, i),
                    transport |-> IF isStdio THEN "stdio" ELSE "http",
                    command   |-> command,
                    args      |-> IF argsStr.def
                                  THEN Def(split(argsStr.val, ","))
                                  ELSE Undef,
                    authType  |-> OrElse(At(mcpAuthTypes, i), Def(LitNone)).val,
                    authKey   |-> At(mcpAuthKeys, i),
                    authToken |-> At(mcpAuthTokens, i),
                    env       |-> parsed.env ] >>,
               {<<"MCP_ENV_JSON", i, w>> : w \in parsed.warnings},
               parsed.threw)

\* Math.max(mcpUrls.length, mcpCommands.length, mcpNames.length)
legacyCount(e) ==
    Max(Len(SplitOrEmpty(e, "MCP_URL")),
        Max(Len(SplitOrEmpty(e, "MCP_COMMAND")),
            Len(SplitOrEmpty(e, "MCP_NAME"))))

RECURSIVE legacyFrom(_, _)
legacyFrom(e, i) ==
    IF i >= legacyCount(e)
    THEN Parsed(<< >>, {}, FALSE)
    ELSE JoinParsed(legacyMcp(e, i), legacyFrom(e, i + 1))

\* parseLegacyMcpConfig
parseLegacyMcpConfig(e) == legacyFrom(e, 0)

\* one round of the loop of parseOpenapiConfig
openapiSource(e, i) ==
    LET name == EnvGet(e, OpenapiKey(i, "NAME"))
        url  == EnvGet(e, OpenapiKey(i, "URL"))
    IN  IF ~Truthy(name)
        THEN Parsed(<< >>, {}, FALSE)
        ELSE IF ~Truthy(url)
        THEN Parsed(<< >>, {<<OpenapiKey(i, "URL"), "missing">>}, FALSE)
        ELSE Parsed(
               << [ name         |-> name.val,
                    url          |-> url.val,
                    authType     |-> OrElse(EnvGet(e, OpenapiKey(i, "AUTH_TYPE")),
                                            Def(LitNone)).val,
                    authToken    |-> EnvGet(e, OpenapiKey(i, "AUTH_TOKEN")),
                    authVar      |-> OrElse(EnvGet(e, OpenapiKey(i, "AUTH_VAR")),
                                            Def(LitAuthorization)).val,
                    authLocation |-> OrElse(EnvGet(e, OpenapiKey(i, "AUTH_LOCATION")),
                                            Def(LitHeader)).val ] >>,
               {}, FALSE)

RECURSIVE openapiFrom(_, _)
openapiFrom(e, i) ==
    IF i > MaxNumbered
    THEN Parsed(<< >>, {}, FALSE)
    ELSE JoinParsed(openapiSource(e, i), openapiFrom(e, i + 1))

\* parseOpenapiConfig
parseOpenapiConfig(e) == openapiFrom(e, 1)

\* process.env.KEY?.toLowerCase()
LowerOrUndef(o) == IF o.def THEN Def(toLowerCase(o.val)) ELSE Undef

\* The providers loadConfig resolves, with the delimited values read even when
\* an indexed name is set
resolveMcpsMixed(e) ==
    JoinParsed(parseNumberedMcpConfig(e), parseLegacyMcpConfig(e))

\* The providers loadConfig resolves (lines 79-89)
resolveMcps(e) ==
    LET numberedMcps == parseNumberedMcpConfig(e)
    IN  IF Len(numberedMcps.mcps) > 0
        THEN numberedMcps
        ELSE parseLegacyMcpConfig(e)

\* loadConfig
loadConfig(e) ==
    LET resolved == resolveMcps(e)
        openapis == parseOpenapiConfig(e)
    IN  [ mcps     |-> resolved.mcps,
          openapis |-> openapis.mcps,
          llm      |->
            [ apiKey  |-> OrElse(EnvGet(e, "LLM_API_KEY"),
                                 OrElse(EnvGet(e, "OPENAI_API_KEY"),
                                        EnvGet(e, "OPENROUTER_API_KEY"))),
              baseUrl |-> OrElse(EnvGet(e, "LLM_BASE_URL"),
                                 IF Truthy(EnvGet(e, "OPENROUTER_API_KEY"))
                                 THEN Def(LitOpenRouterUrl) ELSE Undef),
              model   |-> OrElse(EnvGet(e, "LLM_MODEL"), Def(LitDefaultModel)).val ],
          filter   |->
            [ enabled            |->
                  LowerOrUndef(EnvGet(e, "ENABLE_LLM_FILTER")) # Def(LitFalse),
              maxResponseChars   |->
                  parseInt(OrElse(EnvGet(e, "MAX_RESPONSE_CHARS"),
                                  Def(LitDefaultMaxChars)).val),
              summarizeThreshold |->
                  parseInt(OrElse(EnvGet(e, "SUMMARIZE_THRESHOLD"),
                                  Def(LitDefaultThreshold)).val),
              forceLlmFilter     |->
                  LowerOrUndef(EnvGet(e, "FORCE_LLM_FILTER")) = Def(LitTrue) ],
          router   |->
            [ enabled |-> LowerOrUndef(EnvGet(e, "ENABLE_LLM_SEARCH")) # Def(LitFalse),
              model   |-> OrElse(EnvGet(e, "ROUTER_MODEL"), Undef) ],
          warnings |-> resolved.warnings \cup openapis.warnings,
          threw    |-> resolved.threw \/ openapis.threw ]

\* What validateConfig does: it returns or throws, and the warnings it logs
Validated(warnings) == [threw |-> FALSE, error |-> "", name |-> << >>, warnings |-> warnings]
ValidationError(error, name) ==
    [threw |-> TRUE, error |-> error, name |-> name, warnings |-> {}]

\* the loop of validateConfig over the providers from position i on: the
\* first provider that fails, if any
RECURSIVE validateMcpsFrom(_, _)
validateMcpsFrom(mcps, i) ==
    IF i > Len(mcps)
    THEN Validated({})
    ELSE IF mcps[i].transport = "stdio"
    THEN IF ~Truthy(mcps[i].command)
         THEN ValidationError("stdio without command", mcps[i].name)
         ELSE validateMcpsFrom(mcps, i + 1)
    ELSE IF ~Truthy(mcps[i].url)
         THEN ValidationError("http without url", mcps[i].name)
         ELSE validateMcpsFrom(mcps, i + 1)

\* validateConfig with the missing-credential warning turned into an error
validateConfigStrict(c) ==
    IF Len(c.mcps) = 0 /\ Len(c.openapis) = 0
    THEN ValidationError("no tool source", << >>)
    ELSE LET each == validateMcpsFrom(c.mcps, 1)
         IN  IF each.threw
             THEN each
             ELSE IF c.filter.enabled /\ ~Truthy(c.llm.apiKey)
             THEN ValidationError("no api key", << >>)
             ELSE Validated({})

\* validateConfig
validateConfig(c) ==
    IF Len(c.mcps) = 0 /\ Len(c.openapis) = 0
    THEN ValidationError("no tool source", << >>)
    ELSE LET each == validateMcpsFrom(c.mcps, 1)
         IN  IF each.threw
             THEN each
             ELSE IF c.filter.enabled /\ ~Truthy(c.llm.apiKey)
             THEN Validated({"no api key"})
             ELSE Validated({})

---------------------------------------------------------------------------
(* Configuration loading on bounded environments *)

IndexedJsonTexts ==
    {TextNonString, TextAllString, TextMixed, TextEmptyObject, TextArray,
     TextNull, TextZero, TextInvalid}

\* the values an environment variable may be set to
EnvValues(key) ==
    CASE \E i \in 1..NumIndexed : key = NumberedKey(i, "NAME") ->
            {<< >>, <<"a">>}
      [] \E i \in 1..NumIndexed : key = NumberedKey(i, "URL") -> {<<"u">>}
      [] \E i \in 1..NumIndexed : key = NumberedKey(i, "COMMAND") -> {<<"c">>}
      [] \E i \in 1..NumIndexed : key = NumberedKey(i, "TRANSPORT") ->
            {LitStdio, LitHttp}
      [] key = NumberedKey(1, "ENV_JSON") -> IndexedJsonTexts
      [] key = "MCP_NAME" -> {<<"d">>, <<"d", ";", "e">>, <<";", "e">>}
      [] key = "MCP_URL" -> {<<"v">>, <<"v", ";", "w">>, << >>}
      [] key = "MCP_COMMAND" -> {<<"k">>, <<";", "k">>}
      [] key = "MCP_TRANSPORT" -> {LitStdio, LitHttp \o <<";">> \o LitStdio}
      [] key = "MCP_ENV_JSON" ->
            {TextMixed, TextInvalid \o <<";">> \o TextAllString,
             TextSemicolon, <<";">> \o TextNonString}
      [] key = "MCP_ARGS" -> {<<"x", ",", "y", ";", "z">>}
      [] key = "MCP_AUTH_TOKEN" -> {<<"t", ";", "s">>}
      [] key = "OPENAPI_1_NAME" -> {<<"o">>}
      [] key = "OPENAPI_1_URL" -> {<<"w">>}
      [] key = "LLM_API_KEY" -> {<<"s", "k">>}
      [] key = "ENABLE_LLM_FILTER" -> {<<"F", "a", "l", "s", "e">>}
      [] key = "MAX_RESPONSE_CHARS" ->
            {<< >>, <<"-", "1">>, <<"a", "b", "c">>, <<"1", "2", "a", "b", "c">>,
             <<" ", "4", "2">>}
      [] key = "SUMMARIZE_THRESHOLD" -> {<<"+", "7">>, <<"u00A0", "3", ".", "9">>}

\* the environment variables of the model, in the order they are set (the
\* override text varies on the first indexed provider and in the delimited
\* shape)
IndexedFields == <<"NAME", "URL", "COMMAND", "TRANSPORT">>
EnvKeys ==
    [n \in 1..(4 * NumIndexed) |->
        NumberedKey(((n - 1) \div 4) + 1, IndexedFields[((n - 1) % 4) + 1])]
    \o <<NumberedKey(1, "ENV_JSON"), "MCP_NAME", "MCP_URL", "MCP_COMMAND", "MCP_TRANSPORT", "MCP_ENV_JSON",
         "MCP_ARGS", "MCP_AUTH_TOKEN", "OPENAPI_1_NAME", "OPENAPI_1_URL",
         "LLM_API_KEY", "ENABLE_LLM_FILTER", "MAX_RESPONSE_CHARS",
         "SUMMARIZE_THRESHOLD">>

EmptyEnv == [k \in {} |-> << >>]
NoConfig == [loaded |-> FALSE]
NoValidation == [done |-> FALSE]

ConfigInit ==
    /\ env = EmptyEnv
    /\ cfgPhase = "env"
    /\ config = NoConfig
    /\ validation = NoValidation
    /\ filterConfig = [enabled |-> TRUE, maxResponseChars |-> Num(0),
                       summarizeThreshold |-> Num(0), forceLlmFilter |-> FALSE]
    /\ llmClient = FALSE
    /\ filterCall = NoCall
    /\ ServerIdle

\* The environment the process is started in: one more variable is set (in
\* the order of EnvKeys, so that each environment is built once).
SetEnv(n, value) ==
    /\ cfgPhase = "env"
    /\ Cardinality(DOMAIN env) < MaxEnvVars
    /\ \A m \in n..Len(EnvKeys) : EnvKeys[m] \notin DOMAIN env
    /\ env' = [k \in DOMAIN env \cup {EnvKeys[n]} |->
                  IF k = EnvKeys[n] THEN value ELSE env[k]]
    /\ UNCHANGED <<cfgPhase, config, validation>>
    /\ UNCHANGED filterVars
    /\ UNCHANGED serverVars

\* const config = loadConfig()
LoadConfig ==
    /\ cfgPhase = "env"
    /\ config' = [loaded |-> TRUE, value |-> loadConfig(env)]
    /\ cfgPhase' = "loaded"
    /\ UNCHANGED <<env, validation>>
    /\ UNCHANGED filterVars
    /\ UNCHANGED serverVars

\* validateConfig(config)
ValidateConfig ==
    /\ cfgPhase = "loaded"
    /\ ~config.value.threw
    /\ validation' = [done |-> TRUE, result |-> validateConfig(config.value)]
    /\ cfgPhase' = "validated"
    /\ UNCHANGED <<env, config>>
    /\ UNCHANGED filterVars
    /\ UNCHANGED serverVars

ConfigNext ==
    \/ \E n \in 1..Len(EnvKeys) : \E value \in EnvValues(EnvKeys[n]) :
          SetEnv(n, value)
    \/ LoadConfig
    \/ ValidateConfig

SpecConfig == ConfigInit /\ [][ConfigNext]_vars

---------------------------------------------------------------------------
(* GatewayServer (src/src/server.ts): the UTCP client it drives *)

\* limit = 10, the default of searchTools
DefaultLimit == 10
\* description?.slice(0, 100): the length of a brief
BriefLength == 100
\* toolList.slice(0, 2): the tool names a line of the capability summary shows
SummaryNames == 2


\* Array.prototype.join
RECURSIVE join(_, _)
join(list, sep) ==
    IF list = << >> THEN << >>
    ELSE IF Len(list) = 1 THEN list[1]
    ELSE list[1] \o sep \o join(Tail(list), sep)

\* A Tool of the UTCP client: its qualified name "manual.tool" and its
\* description, which may be undefined
Tool(name, description) == [name |-> name, description |-> description]

\* What a lookup of one tool gives: the tool, or undefined
NoTool == Tool(<< >>, Undef)
Found(t) == [found |-> TRUE, tool |-> t]
NotFound == [found |-> FALSE, tool |-> NoTool]

\* Array.prototype.find: the first element of the list among those at the
\* indices hits, which satisfy the test
find(list, hits) ==
    IF hits = {} THEN NotFound
    ELSE Found(list[CHOOSE i \in hits : \A j \in hits : i <= j])

\* CodeModeUtcpClient.create(): a client with no manual registered
NewClient == [manuals |-> << >>]

\* client.registerManual(template) can register the manual and its tools,
\* resolve without having registered anything (the result the server does
\* not look at says success: false), or reject.
RegisterOutcomes == {"registered", "unsuccessful", "throws"}

registerManual(client, name, outcome) ==
    IF outcome = "registered" /\ \A i \in 1..Len(client.manuals) : client.manuals[i] # name
    THEN [client EXCEPT !.manuals = Append(@, name)]
    ELSE client

\* client.getTools(): the tools of the registered manuals, in the order of
\* registration
RECURSIVE toolsOfManuals(_, _)
toolsOfManuals(manuals, cat) ==
    IF manuals = << >> THEN << >>
    ELSE cat[Head(manuals)] \o toolsOfManuals(Tail(manuals), cat)

getTools(client, cat) == toolsOfManuals(client.manuals, cat)

\* client.getTool(name): the registered tool of exactly this name
getTool(client, cat, name) ==
    LET tools == getTools(client, cat)
    IN  find(tools, {i \in 1..Len(tools) : tools[i].name = name})

\* client.toolToTypeScriptInterface(tool): the interface text the client
\* generates for the tool; one text per tool, here a tag and the tool's name
toolToTypeScriptInterface(tool) == <<"n", "a", "m", "e", "s", "p", "a", "c", "e", " ">> \o tool.name

\* client.searchTools(query, limit): the lexical search of the client can
\* reject, find nothing, or find registered tools, at most limit of them
LexicalOutcomes == {"throws", "nothing", "first"}

\* the tools a search finds among the registered tools
searchOver(tools, limit, lex) ==
    IF lex = "first"
    THEN SubSeq(tools, 1, Min(Max(limit, 0), Len(tools)))
    ELSE << >>

clientSearchTools(client, cat, query, limit, lex) ==
    searchOver(getTools(client, cat), limit, lex)

---------------------------------------------------------------------------
(* GatewayServer: names and the cached registry *)

\* GatewayServer.utcpNameToTsName: name.replace(/[.-]/g, '_')
utcpNameToTsName(name) ==
    [i \in 1..Len(name) |-> IF name[i] \in {".", "-"} THEN "_" ELSE name[i]]

\* tool.description?.slice(0, 100) || ''
brief(tool) ==
    IF tool.description.def
    THEN slice(tool.description.val, 0, BriefLength)
    ELSE << >>

summaryOf(tool) == [name |-> utcpNameToTsName(tool.name), brief |-> brief(tool)]

\* toolFullDefs after toolFullDefs.set(tsName, tool) for each tool in turn:
\* a later tool replaces an earlier one of the same tsName
NoDefs == [n \in {} |-> NoTool]

fullDefsOf(tools) ==
    LET indexOf(n) == CHOOSE i \in 1..Len(tools) :
                          /\ utcpNameToTsName(tools[i].name) = n
                          /\ \A j \in (i + 1)..Len(tools) :
                                 utcpNameToTsName(tools[j].name) # n
    IN  [n \in {utcpNameToTsName(tools[i].name) : i \in 1..Len(tools)} |->
            tools[indexOf(n)]]

\* tool.name.split('.')[0] and parts.slice(1).join('.')
manualOf(tool) == split(tool.name, ".")[1]
toolNameOf(tool) == join(Tail(split(tool.name, ".")), <<".">>)

\* the keys of byManual, in the order of insertion
RECURSIVE manualsOf(_)
manualsOf(tools) ==
    IF tools = << >> THEN << >>
    ELSE LET rest == manualsOf(SubSeq(tools, 1, Len(tools) - 1))
             m    == manualOf(tools[Len(tools)])
         IN  IF \E i \in 1..Len(rest) : rest[i] = m THEN rest ELSE Append(rest, m)

SummaryHead == <<"u5DF2", "u8FDE", "u63A5", "u670D", "u52A1", ":">>

\* `- ${manual}: ${toolNames}${suffix}`
summaryLine(tools, manual) ==
    LET ofManual(t) == manualOf(t) = manual
        toolList == SelectSeq(tools, ofManual)
        toolNames == join([i \in 1..Min(SummaryNames, Len(toolList)) |->
                              toolNameOf(toolList[i])],
                          <<",", " ">>)
        suffix == IF Len(toolList) > SummaryNames
                  THEN <<" ", "u7B49">> \o NumberToString(Len(toolList))
                       \o <<"u4E2A", "u5DE5", "u5177">>
                  ELSE << >>
    IN  <<"-", " ">> \o manual \o <<":", " ">> \o toolNames \o suffix

\* GatewayServer.updateCapabilitySummary, after tools = await getTools()
updateCapabilitySummary(tools) ==
    IF Len(tools) = 0
    THEN [capabilitySummary |-> << >>, toolSummaries |-> << >>, toolFullDefs |-> NoDefs]
    ELSE LET manuals == manualsOf(tools)
             lines == <<SummaryHead>>
                      \o [i \in 1..Len(manuals) |-> summaryLine(tools, manuals[i])]
         IN  [ capabilitySummary |-> join(lines, <<"\n">>),
               toolSummaries |-> [i \in 1..Len(tools) |-> summaryOf(tools[i])],
               toolFullDefs  |-> fullDefsOf(tools) ]

---------------------------------------------------------------------------
(* GatewayServer: the operations *)

\* The fields of a GatewayServer that its operations read and write
Server ==
    [ utcpClient        |-> utcpClient,
      clients           |-> clients,
      capabilitySummary |-> capabilitySummary,
      toolSummaries     |-> toolSummaries,
      toolFullDefs      |-> toolFullDefs ]

\* constructor: routerClient is built when config.llm.apiKey && config.router.enabled
routerClient(cfg) == cfg.llm.apiKey # << >> /\ cfg.router.enabled

\* What an operation has done so far: it returned a result, it rejected with
\* an error, or it is suspended at an await; the completion requests it sent
\* and the lexical searches it started
Served(result, completions, lexical) ==
    [threw |-> FALSE, result |-> result, error |-> "", awaits |-> "",
     completions |-> completions, lexical |-> lexical]
Rejected(error, completions, lexical) ==
    [threw |-> TRUE, result |-> << >>, error |-> error, awaits |-> "",
     completions |-> completions, lexical |-> lexical]
Awaits(what, completions, lexical) ==
    [threw |-> FALSE, result |-> << >>, error |-> "", awaits |-> what,
     completions |-> completions, lexical |-> lexical]

\* { name, description, typescript_interface } of a tool in a search result
toolEntry(t) ==
    [ name |-> utcpNameToTsName(t.name),
      description |-> t.description,
      typescript_interface |-> toolToTypeScriptInterface(t) ]

\* the object a search result serializes: { tools } or { tools, message }
SearchResult(tools, message) ==
    [isError |-> FALSE,
     tools |-> [i \in 1..Len(tools) |-> toolEntry(tools[i])],
     message |-> message]

NoMatchMessage ==
    <<"u672A", "u627E", "u5230", "u5339", "u914D", "u7684", "u5DE5", "u5177">>

\* What await client.searchTools(query, limit) resumes with: the tools found,
\* or a rejection
Searched(tools) == [threw |-> FALSE, tools |-> tools]
SearchThrows == [threw |-> TRUE, tools |-> << >>]

\* const tools = await client.searchTools(query, limit); return { tools: ... }
\* found is what the await resumed with, undefined while it is pending
lexicalSearch(query, limit, found, completions) ==
    LET started == <<[query |-> query, limit |-> limit]>>
    IN  IF ~found.def
        THEN Awaits("searchTools", completions, started)
        ELSE IF found.val.threw
        THEN Rejected("searchTools", completions, started)
        ELSE Served(SearchResult(found.val.tools, Undef), completions, started)

\* resultText.toLowerCase().trim() === 'none', compared without trim
isNoMatchUntrimmed(resultText) == toLowerCase(resultText) = LitNone

\* resultText.toLowerCase().trim() === 'none'
isNoMatch(resultText) == trim(toLowerCase(resultText)) = LitNone

\* GatewayServer.llmSearchTools without the catch of the completion request
llmSearchToolsNoCatch(srv, cfg, query, limit, llm, found) ==
    IF ~routerClient(cfg)
    THEN Rejected("Router client not initialized", 0, << >>)
    ELSE IF llm.kind = "pending"
    THEN Awaits("completions", 1, << >>)
    ELSE IF llm.kind = "throws"
    THEN Rejected("completions", 1, << >>)
    ELSE LET resultText == IF ContentOrEmpty(llm) # << >> THEN llm.content ELSE LitNone
             parts == split(resultText, ",")
             wanted(n) == n # << >> /\ n # LitNone
             recommendedNames ==
                 SelectSeq([i \in 1..Len(parts) |-> trim(parts[i])], wanted)
             cached(n) == n \in DOMAIN srv.toolFullDefs
             known == SelectSeq(recommendedNames, cached)
             recommendedTools == [i \in 1..Len(known) |-> srv.toolFullDefs[known[i]]]
         IN  IF isNoMatch(resultText)
             THEN Served([isError |-> FALSE, tools |-> << >>,
                          message |-> Def(NoMatchMessage)], 1, << >>)
             ELSE Served(SearchResult(recommendedTools, Undef), 1, << >>)

\* llmSearchTools looking the names up as the answer spells them, untrimmed
llmSearchToolsUntrimmedNames(srv, cfg, query, limit, llm, found) ==
    IF ~routerClient(cfg)
    THEN Rejected("Router client not initialized", 0, << >>)
    ELSE IF llm.kind = "pending"
    THEN Awaits("completions", 1, << >>)
    ELSE IF llm.kind = "throws"
    THEN lexicalSearch(query, limit, found, 1)
    ELSE LET resultText == IF ContentOrEmpty(llm) # << >> THEN llm.content ELSE LitNone
             parts == split(resultText, ",")
             wanted(n) == n # << >> /\ n # LitNone
             recommendedNames ==
                 SelectSeq(parts, wanted)
             cached(n) == n \in DOMAIN srv.toolFullDefs
             known == SelectSeq(recommendedNames, cached)
             recommendedTools == [i \in 1..Len(known) |-> srv.toolFullDefs[known[i]]]
         IN  IF isNoMatch(resultText)
             THEN Served([isError |-> FALSE, tools |-> << >>,
                          message |-> Def(NoMatchMessage)], 1, << >>)
             ELSE Served(SearchResult(recommendedTools, Undef), 1, << >>)

\* GatewayServer.llmSearchTools.  llm is what the await of the completion
\* request resumed with (LlmPending while it is pending), found what the await
\* of client.searchTools in the catch resumed with; srv.toolFullDefs is read
\* after the completion request has resolved.
llmSearchTools(srv, cfg, query, limit, llm, found) ==
    IF ~routerClient(cfg)
    THEN Rejected("Router client not initialized", 0, << >>)
    ELSE IF llm.kind = "pending"
    THEN Awaits("completions", 1, << >>)
    ELSE IF llm.kind = "throws"
    THEN lexicalSearch(query, limit, found, 1)
    ELSE LET resultText == IF ContentOrEmpty(llm) # << >> THEN llm.content ELSE LitNone
             parts == split(resultText, ",")
             wanted(n) == n # << >> /\ n # LitNone
             recommendedNames ==
                 SelectSeq([i \in 1..Len(parts) |-> trim(parts[i])], wanted)
             cached(n) == n \in DOMAIN srv.toolFullDefs
             known == SelectSeq(recommendedNames, cached)
             recommendedTools == [i \in 1..Len(known) |-> srv.toolFullDefs[known[i]]]
         IN  IF isNoMatch(resultText)
             THEN Served([isError |-> FALSE, tools |-> << >>,
                          message |-> Def(NoMatchMessage)], 1, << >>)
             ELSE Served(SearchResult(recommendedTools, Undef), 1, << >>)

\* an argument that may be missing from the request: args?.limit
NoNumber == [def |-> FALSE, val |-> 0]
Number(n) == [def |-> TRUE, val |-> n]

\* limit = 10: the limit of a search_tools call
LimitOf(limitArg) == IF limitArg.def THEN limitArg.val ELSE DefaultLimit

\* the routing test without the test for known tools
usesRouterWithoutTools(srv, cfg) ==
    cfg.router.enabled /\ routerClient(cfg)

\* this.config.router.enabled && this.routerClient && this.toolSummaries.length > 0
usesRouter(srv, cfg) ==
    cfg.router.enabled /\ routerClient(cfg) /\ Len(srv.toolSummaries) > 0

\* GatewayServer.searchTools, after client = await this.getUtcpClient()
searchTools(srv, cfg, query, limitArg, llm, found) ==
    IF usesRouter(srv, cfg)
    THEN llmSearchTools(srv, cfg, query, LimitOf(limitArg), llm, found)
    ELSE lexicalSearch(query, LimitOf(limitArg), found, 0)

\* tools.find of toolInfo with the exact comparison only
findToolExact(tools, toolName) ==
    find(tools, {i \in 1..Len(tools) : tools[i].name = toolName})

\* tools.find comparing the names without regard to letter case
findToolIgnoringCase(tools, toolName) ==
    LET normalizedInput == toLowerCase(utcpNameToTsName(toolName))
        matches(t) ==
            LET normalizedTool == toLowerCase(utcpNameToTsName(t.name))
            IN  \/ toLowerCase(t.name) = toLowerCase(toolName)
                \/ normalizedTool = toLowerCase(toolName)
                \/ normalizedTool = normalizedInput
    IN  find(tools, {i \in 1..Len(tools) : matches(tools[i])})

\* tools.find(t => ...) of toolInfo
findTool(tools, toolName) ==
    LET normalizedInput == utcpNameToTsName(toolName)
        matches(t) ==
            LET normalizedTool == utcpNameToTsName(t.name)
            IN  \/ t.name = toolName
                \/ normalizedTool = toolName
                \/ normalizedTool = normalizedInput
    IN  find(tools, {i \in 1..Len(tools) : matches(tools[i])})

InterfaceResult(tool) ==
    [isError |-> FALSE, text |-> toolToTypeScriptInterface(tool)]
\* { error: `Tool '${toolName}' not found` }, isError: true
ToolNotFound(toolName) ==
    [isError |-> TRUE,
     text |-> <<"T", "o", "o", "l", " ", "'">> \o toolName
              \o <<"'", " ", "n", "o", "t", " ", "f", "o", "u", "n", "d">>]

\* toolInfo throwing for a tool that is not found
toolInfoThrows(toolName, direct, tools) ==
    IF ~direct.def THEN Awaits("getTool", 0, << >>)
    ELSE IF direct.val.found
    THEN Served(InterfaceResult(direct.val.tool), 0, << >>)
    ELSE IF ~tools.def THEN Awaits("getTools", 0, << >>)
    ELSE LET found == findTool(tools.val, toolName)
         IN  IF ~found.found THEN Rejected("toolInfo", 0, << >>)
             ELSE Served(InterfaceResult(found.tool), 0, << >>)

\* GatewayServer.toolInfo, after client = await this.getUtcpClient(): direct
\* is what await client.getTool(toolName) resumed with and tools what await
\* client.getTools() resumed with, undefined while the await is pending
toolInfo(toolName, direct, tools) ==
    IF ~direct.def THEN Awaits("getTool", 0, << >>)
    ELSE IF direct.val.found
    THEN Served(InterfaceResult(direct.val.tool), 0, << >>)
    ELSE IF ~tools.def THEN Awaits("getTools", 0, << >>)
    ELSE LET found == findTool(tools.val, toolName)
         IN  IF ~found.found THEN Served(ToolNotFound(toolName), 0, << >>)
             ELSE Served(InterfaceResult(found.tool), 0, << >>)

\* { tools, hint } of list_tools: a name and a brief for each tool
ListResult(summaries) == [isError |-> FALSE, tools |-> summaries]

\* GatewayServer.listTools: summaries is this.toolSummaries as the call finds
\* it, tools what await client.getTools() resumed with (undefined while the
\* call has not come that far)
listTools(summaries, tools) ==
    IF Len(summaries) > 0
    THEN Served(ListResult(summaries), 0, << >>)
    ELSE IF ~tools.def THEN Awaits("getTools", 0, << >>)
    ELSE Served(ListResult([i \in 1..Len(tools.val) |-> summaryOf(tools.val[i])]),
                0, << >>)

\* the catch of the CallToolRequest handler: { text: `Error: ${error}`, isError: true }
ErrorResult(error) == [isError |-> TRUE, error |-> error]

\* getUtcpClient returned a client, or rejected with the error of registerManual
Initialized == [threw |-> FALSE]
InitThrew == [threw |-> TRUE]

\* the handler without its try/catch: the request is rejected with the error
answerUncaught(init, served) ==
    IF init.threw THEN [isError |-> FALSE, rejected |-> "registerManual"]
    ELSE IF served.threw THEN [isError |-> FALSE, rejected |-> served.error]
    ELSE served.result

\* What the CallToolRequest handler answers: the result of the operation, or
\* the error result of its catch
answer(init, served) ==
    IF init.threw THEN ErrorResult("registerManual")
    ELSE IF served.threw THEN ErrorResult(served.error)
    ELSE served.result

---------------------------------------------------------------------------
(* GatewayServer: the advertised operations and call_tool_chain *)

\* '（服务尚未初始化）', shown while capabilitySummary is empty
NotInitialized ==
    <<"uFF08", "u670D", "u52A1", "u5C1A", "u672A", "u521D", "u59CB", "u5316", "uFF09">>

\* GatewayServer.buildCallToolChainDefinition with filter_response always
\* among the properties
buildCallToolChainDefinitionAlways(cfg) ==
    [ name |-> "call_tool_chain",
      description |-> <<"base", IF cfg.filter.forceLlmFilter THEN "forced" ELSE "filter_response",
                        "example">>,
      properties |-> [ code |-> "string", timeout |-> "number",
                       max_output_size |-> "number", purpose |-> "string",
                       filter_response |-> "boolean" ],
      required |-> {"code"} ]

\* GatewayServer.buildCallToolChainDefinition: the description is the base
\* text, the note on forced filtering or on filter_response, and the
\* example; properties maps each parameter to its type
buildCallToolChainDefinition(cfg) ==
    [ name |-> "call_tool_chain",
      description |-> <<"base", IF cfg.filter.forceLlmFilter THEN "forced" ELSE "filter_response",
                        "example">>,
      properties |-> IF ~cfg.filter.forceLlmFilter
                     THEN [ code |-> "string", timeout |-> "number",
                            max_output_size |-> "number", purpose |-> "string",
                            filter_response |-> "boolean" ]
                     ELSE [ code |-> "string", timeout |-> "number",
                            max_output_size |-> "number", purpose |-> "string" ],
      required |-> {"code"} ]

\* The ListToolsRequest handler: the four tool definitions; the descriptions
\* of search_tools and list_tools end with the capability summary
listOperations(srv, cfg) ==
    LET summary == IF srv.capabilitySummary # << >>
                   THEN srv.capabilitySummary
                   ELSE NotInitialized
    IN  [ tools |->
            << [ name |-> "search_tools",
                 description |-> <<"search", summary>>,
                 properties |-> [query |-> "string", limit |-> "number"],
                 required |-> {"query"} ],
               [ name |-> "list_tools",
                 description |-> <<"list", summary>>,
                 properties |-> << >>,
                 required |-> {} ],
               [ name |-> "tool_info",
                 description |-> <<"info">>,
                 properties |-> [tool_name |-> "string"],
                 required |-> {"tool_name"} ],
               buildCallToolChainDefinition(cfg) >> ]

\* maxOutputSize = 5000, the default of callToolChain
DefaultMaxOutputSize == 5000

\* '\n...\n[max_output_size exceeded, 请在代码中过滤数据后再 return]'
MaxOutputMarker ==
    <<"\n", ".", ".", ".", "\n", "[", "m", "a", "x", "_", "o", "u", "t", "p", "u",
      "t", "_", "s", "i", "z", "e", " ", "e", "x", "c", "e", "e", "d", "e", "d",
      ",", " ", "u8BF7", "u5728", "u4EE3", "u7801", "u4E2D", "u8FC7", "u6EE4",
      "u6570", "u636E", "u540E", "u518D", " ", "r", "e", "t", "u", "r", "n", "]">>

\* the units U+0000 to U+001F in order; the units that TLA+ can write as an
\* escape are known under both spellings
ControlUnits ==
    <<"u0000", "u0001", "u0002", "u0003", "u0004", "u0005", "u0006", "u0007",
      "u0008", "u0009", "u000A", "u000B", "u000C", "u000D", "u000E", "u000F",
      "u0010", "u0011", "u0012", "u0013", "u0014", "u0015", "u0016", "u0017",
      "u0018", "u0019", "u001A", "u001B", "u001C", "u001D", "u001E", "u001F">>
ControlSet == {ControlUnits[i] : i \in DOMAIN ControlUnits}

HexDigit ==
    <<"0", "1", "2", "3", "4", "5", "6", "7", "8", "9", "a", "b", "c", "d", "e", "f">>

\* \uXXXX with four lowercase hexadecimal digits
UnicodeEscape(n) ==
    <<"\\", "u", HexDigit[(n \div 4096) + 1], HexDigit[((n \div 256) % 16) + 1],
      HexDigit[((n \div 16) % 16) + 1], HexDigit[(n % 16) + 1]>>

\* QuoteJSONString on one unit that is no surrogate
escapeUnit(c) ==
    CASE c = "\""                 -> <<"\\", "\"">>
      [] c = "\\"                 -> <<"\\", "\\">>
      [] c = "u0008"              -> <<"\\", "b">>
      [] c \in {"\t", "u0009"}    -> <<"\\", "t">>
      [] c \in {"\n", "u000A"}    -> <<"\\", "n">>
      [] c \in {"\f", "u000C"}    -> <<"\\", "f">>
      [] c \in {"\r", "u000D"}    -> <<"\\", "r">>
      [] c \in ControlSet \ {"u0008", "u0009", "u000A", "u000C", "u000D"} ->
            UnicodeEscape((CHOOSE i \in DOMAIN ControlUnits : ControlUnits[i] = c) - 1)
      [] OTHER                    -> <<c>>

\* QuoteJSONString from index i on, code point by code point: a surrogate
\* pair is kept, a surrogate outside a pair is escaped
RECURSIVE escapeFrom(_, _)
escapeFrom(s, i) ==
    IF i > Len(s) THEN << >>
    ELSE IF PairAt(s, i) THEN <<s[i], s[i + 1]>> \o escapeFrom(s, i + 2)
    ELSE IF s[i] \in HighSurrogates \/ s[i] \in LowSurrogates
    THEN UnicodeEscape(UnitValue(s[i])) \o escapeFrom(s, i + 1)
    ELSE escapeUnit(s[i]) \o escapeFrom(s, i + 1)

\* JSON.stringify of the units of a string: the quote, the backslash, the
\* control units below U+0020 and the lone surrogates are escaped
escapeJson(s) == escapeFrom(s, 1)

quoteJson(s) == <<"\"">> \o escapeJson(s) \o <<"\"">>

Spaces(n) == [i \in 1..n |-> " "]
Zeros(n) == [i \in 1..n |-> "0"]

\* Number::toString of a finite number, which JSON.stringify writes
numberToString(v) ==
    LET k      == Len(v.digits)
        n      == v.point
        ds     == [i \in 1..k |-> DigitChar[v.digits[i] + 1]]
        sign   == IF v.negative THEN <<"-">> ELSE << >>
        e      == n - 1
        exp    == <<"e", IF e < 0 THEN "-" ELSE "+">>
                      \o NumberToString(IF e < 0 THEN 0 - e ELSE e)
    IN  IF k = 0
        THEN IF v.num < 0 THEN <<"-">> \o NumberToString(0 - v.num)
             ELSE NumberToString(v.num)
        ELSE sign \o
             (IF k <= n /\ n <= 21 THEN ds \o Zeros(n - k)
              ELSE IF 0 < n /\ n <= 21
              THEN SubSeq(ds, 1, n) \o <<".">> \o SubSeq(ds, n + 1, k)
              ELSE IF -6 < n /\ n <= 0
              THEN <<"0", ".">> \o Zeros(0 - n) \o ds
              ELSE IF k = 1 THEN ds \o exp
              ELSE <<ds[1], ".">> \o SubSeq(ds, 2, k) \o exp)

LitNull == <<"n", "u", "l", "l">>

\* SerializeJSONProperty of JSON.stringify(value, null, 2) for a value that
\* is not undefined, at the indentation (in spaces) of its holder: an
\* element that is undefined is written null, a property that is undefined
\* is left out, and a number that is not finite is written null
RECURSIVE serializeJson(_, _)
serializeJson(v, indent) ==
    LET inner    == Spaces(indent + 2)
        between  == <<",", "\n">> \o inner
        element(x) == IF x.type = "undefined" THEN LitNull
                      ELSE serializeJson(x, indent + 2)
        present  == SelectSeq(v.items, LAMBDA m : m.value.type # "undefined")
        property(m) == quoteJson(m.key) \o <<":", " ">>
                           \o serializeJson(m.value, indent + 2)
        wrap(open, parts, close) ==
            <<open, "\n">> \o inner \o join(parts, between)
                \o <<"\n">> \o Spaces(indent) \o <<close>>
    IN  CASE v.type = "null"    -> LitNull
          [] v.type = "boolean" -> IF v.bool THEN <<"t", "r", "u", "e">>
                                   ELSE <<"f", "a", "l", "s", "e">>
          [] v.type = "string"  -> quoteJson(v.str)
          [] v.type = "number"  -> IF v.str # << >> THEN LitNull
                                   ELSE numberToString(v)
          [] v.type = "array"   ->
                IF v.items = << >> THEN <<"[", "]">>
                ELSE wrap("[", [i \in 1..Len(v.items) |-> element(v.items[i])], "]")
          [] v.type = "object" /\ DOMAIN v.entries = {} ->
                IF present = << >> THEN <<"{", "}">>
                ELSE wrap("{", [i \in 1..Len(present) |-> property(present[i])], "}")

\* JSON.stringify of the result of a chain, as the value of a property of
\* the envelope
stringifyValue(v) == serializeJson(v, 2)

\* JSON.stringify of the logs of a chain, an array of strings, as the value
\* of a property of the envelope
stringifyLogs(logs) ==
    serializeJson(JsonArrayOf([i \in 1..Len(logs) |-> JsonString(logs[i])]), 2)

\* JSON.stringify({ success: true, result, logs }, null, 2)
stringifyEnvelope(result, logs) ==
    serializeJson(
        JsonObjectOf(
            << Member(<<"s", "u", "c", "c", "e", "s", "s">>, JsonBoolean(TRUE)),
               Member(<<"r", "e", "s", "u", "l", "t">>, result),
               Member(<<"l", "o", "g", "s">>,
                      JsonArrayOf([i \in 1..Len(logs) |-> JsonString(logs[i])])) >>),
        0)

\* What client.callToolChain(code, timeout) can do: reject, or resolve to the
\* result of the code and the logs it wrote
ChainThrows == [kind |-> "throws", result |-> JsonUndefined, logs |-> << >>]
ChainReturns(result, logs) == [kind |-> "returns", result |-> result, logs |-> logs]

\* an argument that may be missing from the request: args?.filter_response
NoFlag == [def |-> FALSE, val |-> FALSE]
Flag(b) == [def |-> TRUE, val |-> b]

\* the text a tool call returns
TextResult(text) == [isError |-> FALSE, text |-> text]

\* constructor: new LlmFilter(config.llm, config.filter), whose client is
\* built when config.llm.apiKey is set; the outcome of llmFilter.filter
shape(cfg, content, purpose, llm) ==
    filter(cfg.filter, cfg.llm.apiKey # << >>, content, purpose, llm)

\* return { content: [{ type: 'text', text: await this.llmFilter.filter(...) }] }
\* filtered is what the await resumed with, undefined while it is pending
shaped(filtered) ==
    IF ~filtered.def THEN Awaits("filter", 0, << >>)
    ELSE IF filtered.val.threw
    THEN Rejected("filter", Len(filtered.val.requests), << >>)
    ELSE Served(TextResult(filtered.val.text), Len(filtered.val.requests), << >>)

\* const { result, logs } = await client.callToolChain(code, timeout) pending
ChainPending == [kind |-> "pending", result |-> JsonUndefined, logs |-> << >>]

\* JSON.stringify({ success: true, result, logs }, null, 2) of a chain
contentOf(chain) == stringifyEnvelope(chain.result, chain.logs)
\* args?.purpose, undefined when missing
purposeOf(purposeArg) == IF purposeArg.def THEN purposeArg.val ELSE << >>

\* GatewayServer.callToolChain, after client = await this.getUtcpClient(); the
\* size check decides on shouldFilter alone, whether a purpose was given or not
callToolChainAnyPurpose(cfg, code, maxArg, filterArg, purposeArg, chain, filtered) ==
    LET maxOutputSize == IF maxArg.def THEN maxArg.val ELSE DefaultMaxOutputSize
        filterResponse == IF filterArg.def THEN filterArg.val ELSE FALSE
        purpose == purposeOf(purposeArg)
        content == contentOf(chain)
        shouldFilter == filterResponse \/ cfg.filter.forceLlmFilter
    IN  IF chain.kind = "pending" THEN Awaits("callToolChain", 0, << >>)
        ELSE IF chain.kind = "throws" THEN Rejected("callToolChain", 0, << >>)
        ELSE IF Len(content) > maxOutputSize
        THEN IF shouldFilter
             THEN shaped(filtered)
             ELSE Served(TextResult(slice(content, 0, maxOutputSize) \o MaxOutputMarker),
                         0, << >>)
        ELSE IF shouldFilter
        THEN shaped(filtered)
        ELSE Served(TextResult(content), 0, << >>)

\* GatewayServer.callToolChain, after client = await this.getUtcpClient(),
\* returning the envelope as it is whenever it is within the size
callToolChainNeverShapesSmall(cfg, code, maxArg, filterArg, purposeArg, chain, filtered) ==
    LET maxOutputSize == IF maxArg.def THEN maxArg.val ELSE DefaultMaxOutputSize
        filterResponse == IF filterArg.def THEN filterArg.val ELSE FALSE
        purpose == purposeOf(purposeArg)
        content == contentOf(chain)
        shouldFilter == filterResponse \/ cfg.filter.forceLlmFilter
    IN  IF chain.kind = "pending" THEN Awaits("callToolChain", 0, << >>)
        ELSE IF chain.kind = "throws" THEN Rejected("callToolChain", 0, << >>)
        ELSE IF Len(content) > maxOutputSize
        THEN IF shouldFilter /\ purpose # << >>
             THEN shaped(filtered)
             ELSE Served(TextResult(slice(content, 0, maxOutputSize) \o MaxOutputMarker),
                         0, << >>)
        ELSE Served(TextResult(content), 0, << >>)

\* GatewayServer.callToolChain, after client = await this.getUtcpClient():
\* chain is what await client.callToolChain(code, timeout) resumed with
\* (ChainPending while it is pending), filtered what
\* await this.llmFilter.filter(content, purpose) resumed with
callToolChain(cfg, code, maxArg, filterArg, purposeArg, chain, filtered) ==
    LET maxOutputSize == IF maxArg.def THEN maxArg.val ELSE DefaultMaxOutputSize
        filterResponse == IF filterArg.def THEN filterArg.val ELSE FALSE
        purpose == purposeOf(purposeArg)
        content == contentOf(chain)
        shouldFilter == filterResponse \/ cfg.filter.forceLlmFilter
    IN  IF chain.kind = "pending" THEN Awaits("callToolChain", 0, << >>)
        ELSE IF chain.kind = "throws" THEN Rejected("callToolChain", 0, << >>)
        ELSE IF Len(content) > maxOutputSize
        THEN IF shouldFilter /\ purpose # << >>
             THEN shaped(filtered)
             ELSE Served(TextResult(slice(content, 0, maxOutputSize) \o MaxOutputMarker),
                         0, << >>)
        ELSE IF shouldFilter
        THEN shaped(filtered)
        ELSE Served(TextResult(content), 0, << >>)

---------------------------------------------------------------------------
(* The calls of the gateway, step by step *)

(***************************************************************************)
(* The handlers are asynchronous functions on one event loop: a call runs  *)
(* without interruption up to its next await, and the calls in flight      *)
(* interleave at their awaits.  A caller is a slot for one call in flight: *)
(* run() of cli.ts, or a tool call dispatched to the CallToolRequest       *)
(* handler.  The handlers are driven as the constructor registers them, so *)
(* a tool call may also arrive while run() is still initializing.  A call  *)
(* of the client library reads the registry when it is made, and the step  *)
(* that resumes its await delivers what it read.                           *)
(***************************************************************************)

\* calls that can be in flight at the same time
NumCallers == 2
\* calls made in one behaviour
MaxCalls == 3

Callers == 1..NumCallers

\* A request: run() of cli.ts, or a CallToolRequest with its name and the
\* arguments its operation reads
Request(op) ==
    [op |-> op, name |-> "", toolName |-> << >>, query |-> << >>,
     limitArg |-> NoNumber, code |-> << >>, maxArg |-> NoNumber,
     filterArg |-> NoFlag, purposeArg |-> Undef]
NoRequest == Request("none")
RunRequest == Request("run")
ListToolsRequest == Request("list_tools")
ToolInfoRequest(toolName) == [Request("tool_info") EXCEPT !.toolName = toolName]
SearchToolsRequest(query, limitArg) ==
    [Request("search_tools") EXCEPT !.query = query, !.limitArg = limitArg]
CallToolChainRequest(code, maxArg, filterArg, purposeArg) ==
    [Request("call_tool_chain") EXCEPT !.code = code, !.maxArg = maxArg,
                                       !.filterArg = filterArg,
                                       !.purposeArg = purposeArg]
UnknownRequest(name) == [Request("unknown") EXCEPT !.name = name]

\* What a call saw of the registry when it was served: the manuals of the
\* client it was given, the cached summaries it read and the names of the
\* cached full definitions it read
Unserved ==
    [kind |-> "none", manuals |-> << >>, summaries |-> << >>, defs |-> {}]
SeenClient(id) ==
    [kind |-> "client", manuals |-> clients[id].manuals, summaries |-> << >>,
     defs |-> {}]
SeenSummaries ==
    [kind |-> "summaries", manuals |-> << >>, summaries |-> toolSummaries,
     defs |-> {}]
SeenError ==
    [kind |-> "error", manuals |-> << >>, summaries |-> << >>, defs |-> {}]
\* llmSearchTools built its prompt from toolSummaries and awaits the answer
SeenPrompt(id) ==
    [kind |-> "prompt", manuals |-> clients[id].manuals,
     summaries |-> toolSummaries, defs |-> {}]

\* the filter has not been called
NotShaping == FilterAwaits(<< >>)

\* What the answer before a request was: none, served, or an error result
NoAnswer == [op |-> "none", isError |-> FALSE, initThrew |-> FALSE]
Answered(c) ==
    IF c.op = "none" THEN NoAnswer
    ELSE [op |-> c.op,
          isError |-> c.op # "tools/list" /\ c.result.isError,
          initThrew |-> c.initThrew]

\* A caller with no call in flight, which saw `seen` in its last call.  The
\* locals of a call in flight: the client it was given, what its awaits read
\* and resumed with, and the answer that preceded its request.
Idle(seen) ==
    [pc |-> "idle", request |-> NoRequest, target |-> 0, idx |-> 0,
     tools |-> << >>, client |-> 0, seen |-> seen, direct |-> NotFound,
     llm |-> LlmPending, chain |-> ChainPending, shaping |-> NotShaping,
     after |-> NoAnswer]

NoHistory ==
    [calls |-> 0, runs |-> 0, creates |-> 0, registrations |-> 0,
     refreshes |-> 0, failed |-> FALSE]

NoOperation == [op |-> "none"]

\* The answer of the CallToolRequest handler to the request of a frame, with
\* what the call was given: the answer of the completion API, the outcome of
\* the lexical search and of the chain
Answer(frame, init, served, lex) ==
    [ op |-> frame.request.op, name |-> frame.request.name,
      toolName |-> frame.request.toolName,
      query |-> frame.request.query, limitArg |-> frame.request.limitArg,
      code |-> frame.request.code, maxArg |-> frame.request.maxArg,
      filterArg |-> frame.request.filterArg,
      purposeArg |-> frame.request.purposeArg,
      after |-> frame.after,
      initThrew |-> init.threw,
      llm |-> frame.llm, lex |-> lex, chain |-> frame.chain,
      completions |-> IF init.threw THEN 0 ELSE served.completions,
      lexical |-> IF init.threw THEN << >> ELSE served.lexical,
      result |-> answer(init, served) ]

\* the frame of a call suspended at the await it has come to
Suspend(frame, what) ==
    CASE what = "connect" -> [frame EXCEPT !.pc = "connect"]
      [] what = "completions" ->
            [frame EXCEPT !.pc = "rank", !.seen = SeenPrompt(frame.client)]
      [] what = "searchTools" ->
            [frame EXCEPT !.pc = "lexical",
                          !.tools = getTools(clients[frame.client], catalog)]
      [] what = "getTool" ->
            [frame EXCEPT !.pc = "getTool",
                          !.direct = getTool(clients[frame.client], catalog,
                                             frame.request.toolName)]
      [] what = "getTools" ->
            [frame EXCEPT !.pc = IF frame.request.op = "list_tools"
                                 THEN "list" ELSE "getTools",
                          !.tools = getTools(clients[frame.client], catalog)]
      [] what = "callToolChain" -> [frame EXCEPT !.pc = "chain"]
      [] what = "filter" ->
            [frame EXCEPT !.pc = "shape",
                          !.shaping = shape(srvConfig, contentOf(frame.chain),
                                            purposeOf(frame.request.purposeArg),
                                            LlmPending)]

\* The call of a caller goes on to its next await, or returns (or throws) and
\* the handler answers the request
GoesOn(c, frame, served, lex) ==
    IF served.awaits # ""
    THEN /\ callers' = [callers EXCEPT ![c] = Suspend(frame, served.awaits)]
         /\ call' = call
    ELSE /\ callers' = [callers EXCEPT ![c] = Idle(frame.seen)]
         /\ call' = Answer(frame, Initialized, served, lex)

\* A request arrives, in the first free slot, and its call runs up to its
\* first await.  A name of no operation throws in the default branch of the
\* switch; listTools answers from toolSummaries when there are any; every
\* other call enters getUtcpClient, which calls create() when utcpClient is
\* null and returns utcpClient otherwise.
Start(c, request) ==
    LET frame == [Idle(Unserved) EXCEPT !.request = request,
                                        !.after = Answered(call)]
        listed == listTools(toolSummaries, Undef)
    IN  /\ process # "exited"
        /\ callers[c].pc = "idle"
        /\ \A d \in 1..(c - 1) : callers[d].pc # "idle"
        /\ history.calls < MaxCalls
        /\ request.op = "run" => history.runs = 0
        /\ history' = [history EXCEPT !.calls = @ + 1,
                                      !.runs = IF request.op = "run" THEN @ + 1 ELSE @]
        /\ IF request.op = "unknown"
           THEN GoesOn(c, frame, Rejected("Unknown tool", 0, << >>), "none")
           ELSE IF request.op = "list_tools" /\ listed.awaits = ""
           THEN GoesOn(c, [frame EXCEPT !.seen = SeenSummaries], listed, "none")
           ELSE /\ callers' = [callers EXCEPT ![c] =
                      IF utcpClient = 0
                      THEN [frame EXCEPT !.pc = "create"]
                      ELSE [frame EXCEPT !.pc = "resume", !.client = utcpClient]]
                /\ call' = NoOperation
        /\ UNCHANGED <<srvConfig, catalog, utcpClient, clients, capabilitySummary,
                       toolSummaries, toolFullDefs, process>>
        /\ UNCHANGED <<filterVars, configVars>>

\* the frame of a caller that calls updateCapabilitySummary: it returns at
\* once when utcpClient is null, and calls getTools() on utcpClient otherwise
EnterRefresh(frame, id, cls) ==
    [frame EXCEPT !.pc = "refresh", !.target = 0, !.idx = 0,
                  !.tools = getTools(cls[id], catalog)]

\* this.utcpClient = await CodeModeUtcpClient.create() resumes: the new
\* client is assigned, and the loop calls registerMcp for the first provider
\* (or updateCapabilitySummary when there is none)
Created(c) ==
    LET id == Len(clients) + 1
        cls == Append(clients, NewClient)
    IN  /\ process # "exited"
        /\ callers[c].pc = "create"
        /\ utcpClient' = id
        /\ clients' = cls
        /\ history' = [history EXCEPT !.creates = @ + 1]
        /\ callers' = [callers EXCEPT ![c] =
              IF srvConfig.mcps = << >>
              THEN EnterRefresh(@, id, cls)
              ELSE [@ EXCEPT !.pc = "register", !.target = id, !.idx = 1]]
        /\ UNCHANGED <<srvConfig, catalog, capabilitySummary, toolSummaries,
                       toolFullDefs, call, process>>
        /\ UNCHANGED <<filterVars, configVars>>

\* getUtcpClient rejected in the caller's call: run() ends the process (the
\* catch of main in cli.ts), a tool call is answered with the error result of
\* the handler's catch
Fails(c) ==
    /\ callers' = [callers EXCEPT ![c] = Idle(SeenError)]
    /\ process' = IF callers[c].request.op = "run" THEN "exited" ELSE process
    /\ call' = IF callers[c].request.op = "run" THEN call
               ELSE Answer(callers[c], InitThrew, Rejected("registerManual", 0, << >>),
                           "none")

\* await client.registerManual(template) of registerMcp resumes, and
\* registerMcp returns (or rejects, and with it getUtcpClient and the call)
Registered(c, outcome) ==
    LET frame == callers[c]
        name == srvConfig.mcps[frame.idx].name
    IN  /\ process # "exited"
        /\ frame.pc = "register"
        /\ clients' = [clients EXCEPT ![frame.target] = registerManual(@, name, outcome)]
        /\ history' = [history EXCEPT
              !.registrations = @ + 1,
              !.failed = @ \/ outcome # "registered"]
        /\ IF outcome = "throws"
           THEN Fails(c)
           ELSE /\ callers' = [callers EXCEPT ![c] = [@ EXCEPT !.pc = "registered"]]
                /\ process' = process
                /\ call' = call
        /\ UNCHANGED <<srvConfig, catalog, utcpClient, capabilitySummary,
                       toolSummaries, toolFullDefs>>
        /\ UNCHANGED <<filterVars, configVars>>

\* await this.registerMcp(mcp, this.utcpClient) of getUtcpClient resumes: the
\* next iteration reads this.utcpClient again for the client it registers
\* with; after the last provider updateCapabilitySummary is called
NextProvider(c) ==
    LET frame == callers[c]
    IN  /\ process # "exited"
        /\ frame.pc = "registered"
        /\ callers' = [callers EXCEPT ![c] =
              IF frame.idx < Len(srvConfig.mcps)
              THEN [@ EXCEPT !.pc = "register", !.target = utcpClient, !.idx = @ + 1]
              ELSE EnterRefresh(@, utcpClient, clients)]
        /\ UNCHANGED <<srvConfig, catalog, utcpClient, clients, capabilitySummary,
                       toolSummaries, toolFullDefs, call, history, process>>
        /\ UNCHANGED <<filterVars, configVars>>

\* const tools = await this.utcpClient.getTools() of updateCapabilitySummary
\* resumes, and the cached registry is rebuilt from these tools
Refreshed(c) ==
    LET summary == updateCapabilitySummary(callers[c].tools)
    IN  /\ process # "exited"
        /\ callers[c].pc = "refresh"
        /\ capabilitySummary' = summary.capabilitySummary
        /\ toolSummaries' = summary.toolSummaries
        /\ toolFullDefs' = summary.toolFullDefs
        /\ history' = [history EXCEPT !.refreshes = @ + 1]
        /\ callers' = [callers EXCEPT ![c] = [@ EXCEPT !.pc = "return", !.tools = << >>]]
        /\ UNCHANGED <<srvConfig, catalog, utcpClient, clients, call, process>>
        /\ UNCHANGED <<filterVars, configVars>>

\* await this.updateCapabilitySummary() resumes: return this.utcpClient
Returned(c) ==
    /\ process # "exited"
    /\ callers[c].pc = "return"
    /\ callers' = [callers EXCEPT ![c] = [@ EXCEPT !.pc = "resume", !.client = utcpClient]]
    /\ UNCHANGED <<srvConfig, catalog, utcpClient, clients, capabilitySummary,
                   toolSummaries, toolFullDefs, call, history, process>>
    /\ UNCHANGED <<filterVars, configVars>>

\* The operation of a request from the resumption of
\* await this.getUtcpClient() up to its next await: run() calls
\* this.server.connect(transport), listTools (which found toolSummaries empty)
\* calls client.getTools()
operate(srv, cfg, request) ==
    CASE request.op = "run" -> Awaits("connect", 0, << >>)
      [] request.op = "search_tools" ->
            searchTools(srv, cfg, request.query, request.limitArg, LlmPending, Undef)
      [] request.op = "list_tools" -> listTools(<< >>, Undef)
      [] request.op = "tool_info" -> toolInfo(request.toolName, Undef, Undef)
      [] request.op = "call_tool_chain" ->
            callToolChain(cfg, request.code, request.maxArg, request.filterArg,
                          request.purposeArg, ChainPending, Undef)

\* await this.getUtcpClient() resumes in the caller with the client, and the
\* operation runs up to its next await
Resumed(c) ==
    LET frame == [callers[c] EXCEPT !.seen =
                     IF callers[c].request.op = "run" THEN Unserved
                     ELSE SeenClient(callers[c].client)]
    IN  /\ process # "exited"
        /\ callers[c].pc = "resume"
        /\ GoesOn(c, frame, operate(Server, srvConfig, frame.request), "none")
        /\ UNCHANGED <<srvConfig, catalog, utcpClient, clients, capabilitySummary,
                       toolSummaries, toolFullDefs, history, process>>
        /\ UNCHANGED <<filterVars, configVars>>

\* await this.server.connect(transport) of run() resumes
Connected(c) ==
    /\ process # "exited"
    /\ callers[c].pc = "connect"
    /\ callers' = [callers EXCEPT ![c] = Idle(Unserved)]
    /\ process' = "connected"
    /\ UNCHANGED <<srvConfig, catalog, utcpClient, clients, capabilitySummary,
                   toolSummaries, toolFullDefs, call, history>>
    /\ UNCHANGED <<filterVars, configVars>>

\* await this.routerClient.chat.completions.create(...) of llmSearchTools
\* resumes: an answer is resolved through toolFullDefs as it is now; after a
\* rejection the search falls back to the client and reads no cache
RankingAnswered(c, llm) ==
    LET request == callers[c].request
        frame == [callers[c] EXCEPT
                     !.llm = llm,
                     !.seen = IF llm.kind = "throws"
                              THEN SeenClient(callers[c].client)
                              ELSE [callers[c].seen EXCEPT
                                       !.kind = "client",
                                       !.defs = DOMAIN toolFullDefs]]
    IN  /\ process # "exited"
        /\ callers[c].pc = "rank"
        /\ GoesOn(c, frame,
                  llmSearchTools(Server, srvConfig, request.query,
                                 LimitOf(request.limitArg), llm, Undef),
                  "none")
        /\ UNCHANGED <<srvConfig, catalog, utcpClient, clients, capabilitySummary,
                       toolSummaries, toolFullDefs, history, process>>
        /\ UNCHANGED <<filterVars, configVars>>

\* await client.searchTools(query, limit) resumes, in searchTools or in the
\* catch of llmSearchTools
LexicalSearched(c, lex) ==
    LET frame == callers[c]
        request == frame.request
        limit == LimitOf(request.limitArg)
        found == IF lex = "throws" THEN SearchThrows
                 ELSE Searched(searchOver(frame.tools, limit, lex))
    IN  /\ process # "exited"
        /\ frame.pc = "lexical"
        /\ GoesOn(c, frame,
                  IF frame.llm.kind = "pending"
                  THEN lexicalSearch(request.query, limit, Def(found), 0)
                  ELSE llmSearchTools(Server, srvConfig, request.query, limit,
                                      frame.llm, Def(found)),
                  lex)
        /\ UNCHANGED <<srvConfig, catalog, utcpClient, clients, capabilitySummary,
                       toolSummaries, toolFullDefs, history, process>>
        /\ UNCHANGED <<filterVars, configVars>>

\* let tool = await client.getTool(toolName) of toolInfo resumes
GotTool(c) ==
    LET frame == callers[c]
    IN  /\ process # "exited"
        /\ frame.pc = "getTool"
        /\ GoesOn(c, frame, toolInfo(frame.request.toolName, Def(frame.direct), Undef),
                  "none")
        /\ UNCHANGED <<srvConfig, catalog, utcpClient, clients, capabilitySummary,
                       toolSummaries, toolFullDefs, history, process>>
        /\ UNCHANGED <<filterVars, configVars>>

\* const tools = await client.getTools() of toolInfo resumes
GotTools(c) ==
    LET frame == callers[c]
    IN  /\ process # "exited"
        /\ frame.pc = "getTools"
        /\ GoesOn(c, frame,
                  toolInfo(frame.request.toolName, Def(frame.direct), Def(frame.tools)),
                  "none")
        /\ UNCHANGED <<srvConfig, catalog, utcpClient, clients, capabilitySummary,
                       toolSummaries, toolFullDefs, history, process>>
        /\ UNCHANGED <<filterVars, configVars>>

\* const tools = await client.getTools() of listTools resumes
Listed(c) ==
    LET frame == callers[c]
    IN  /\ process # "exited"
        /\ frame.pc = "list"
        /\ GoesOn(c, frame, listTools(<< >>, Def(frame.tools)), "none")
        /\ UNCHANGED <<srvConfig, catalog, utcpClient, clients, capabilitySummary,
                       toolSummaries, toolFullDefs, history, process>>
        /\ UNCHANGED <<filterVars, configVars>>

\* const { result, logs } = await client.callToolChain(code, timeout) resumes
ChainReturned(c, chain) ==
    LET frame == [callers[c] EXCEPT !.chain = chain]
        request == frame.request
    IN  /\ process # "exited"
        /\ callers[c].pc = "chain"
        /\ GoesOn(c, frame,
                  callToolChain(srvConfig, request.code, request.maxArg,
                                request.filterArg, request.purposeArg, chain, Undef),
                  "none")
        /\ UNCHANGED <<srvConfig, catalog, utcpClient, clients, capabilitySummary,
                       toolSummaries, toolFullDefs, history, process>>
        /\ UNCHANGED <<filterVars, configVars>>

\* await this.llmFilter.filter(content, purpose) resumes.  The filter ran to
\* its end when it was called, or it is suspended at its completion request,
\* which llm answers; the filter reads nothing of the server in between.
Shaped(c, llm) ==
    LET request == callers[c].request
        frame == [callers[c] EXCEPT !.llm = llm]
        out == IF frame.shaping.settled THEN frame.shaping
               ELSE shape(srvConfig, contentOf(frame.chain),
                          purposeOf(request.purposeArg), llm)
    IN  /\ process # "exited"
        /\ callers[c].pc = "shape"
        /\ frame.shaping.settled <=> llm.kind = "pending"
        /\ GoesOn(c, frame,
                  callToolChain(srvConfig, request.code, request.maxArg,
                                request.filterArg, request.purposeArg,
                                frame.chain, Def(out)),
                  "none")
        /\ UNCHANGED <<srvConfig, catalog, utcpClient, clients, capabilitySummary,
                       toolSummaries, toolFullDefs, history, process>>
        /\ UNCHANGED <<filterVars, configVars>>

\* ListToolsRequest: the handler does not call getUtcpClient and awaits nothing
ListOperations ==
    /\ call' = [op |-> "tools/list", initThrew |-> FALSE,
                result |-> listOperations(Server, srvConfig)]
    /\ UNCHANGED <<srvConfig, catalog, utcpClient, clients, capabilitySummary,
                   toolSummaries, toolFullDefs, callers, history, process>>
    /\ UNCHANGED <<filterVars, configVars>>

\* getUtcpClient from its first await on
Initializes(c) ==
    \/ Created(c)
    \/ \E outcome \in RegisterOutcomes : Registered(c, outcome)
    \/ NextProvider(c)
    \/ Refreshed(c)
    \/ Returned(c)
    \/ Resumed(c)

---------------------------------------------------------------------------
(* The gateway serving one operation after the other *)

ProviderM == <<"m">>
ProviderN == <<"n">>

ToolHyphen     == Tool(<<"m", ".", "a", "-", "b">>, Def(<<"x">>))
ToolDotted     == Tool(<<"m", ".", "a", ".", "b">>, Def(<<"y">>))
ToolUnderscore == Tool(<<"m", ".", "a", "_", "b">>, Undef)
ToolOther      == Tool(<<"n", ".", "c">>, Def(<<"z">>))

\* What the providers expose: no tool, one tool, or several tools of which
\* two or three have names that differ in their separators only
Catalogs ==
    { [p \in {ProviderM, ProviderN} |-> IF p = ProviderM THEN ms ELSE ns] :
        ms \in { << >>, <<ToolHyphen>>, <<ToolHyphen, ToolDotted>>,
                 <<ToolDotted, ToolHyphen>>,
                 <<ToolHyphen, ToolDotted, ToolUnderscore>> },
        ns \in { << >>, <<ToolOther>> } }

\* the catalog of the providers m and n
TwoProviders ==
    [p \in {ProviderM, ProviderN} |->
        IF p = ProviderM THEN <<ToolHyphen, ToolDotted>> ELSE <<ToolOther>>]

ApiKeys == {<< >>, <<"s", "k">>}

\* config.filter when no variable of the filter is set in the environment
DefaultFilterConfig ==
    [enabled |-> TRUE, maxResponseChars |-> Num(10000),
     summarizeThreshold |-> Num(5000),
     forceLlmFilter |-> FALSE]

\* The configurations a server is constructed with: the providers in
\* config.mcps, config.router.enabled and config.llm.apiKey; config.filter
\* is the default one
SrvConfigs ==
    { [ mcps   |-> mcps,
        router |-> [enabled |-> enabled],
        llm    |-> [apiKey |-> apiKey],
        filter |-> DefaultFilterConfig ] :
        mcps \in { << >>, <<[name |-> ProviderM]>>,
                   <<[name |-> ProviderM], [name |-> ProviderN]>> },
        enabled \in BOOLEAN,
        apiKey \in ApiKeys }

\* the tool_name arguments of tool_info: raw names, their normalized tokens,
\* a half-normalized name, another letter case and an unknown name
ToolNames ==
    { ToolHyphen.name, ToolDotted.name, ToolUnderscore.name, ToolOther.name,
      utcpNameToTsName(ToolHyphen.name), utcpNameToTsName(ToolOther.name),
      <<"m", "_", "a", "-", "b">>, <<"M", ".", "A", "-", "B">>, <<"z">> }

Queries == {<<"q">>}
Limits == {NoNumber, Number(1), Number(2)}

\* What the completion API answers to the routing request
RouterAnswers ==
    { LlmThrows, LlmNoChoice, LlmNull, LlmContent(<< >>),
      LlmContent(LitNone),
      LlmContent(<<"N", "o", "n", "e">>),
      LlmContent(<<" ", "N", "O", "N", "E", "\n">>),
      LlmContent(<<"u00A0", "n", "o", "n", "e", "u2028">>),
      LlmContent(<<"n", "o", "n", "e", "s">>),
      LlmContent(<<"m", "_", "a", "_", "b">>),
      LlmContent(<<"uFEFF", "m", "_", "a", "_", "b", "u000B", ",", "n", "_", "c">>),
      LlmContent(<<"n", "_", "c", ",", " ", "m", "_", "a", "_", "b">>),
      LlmContent(<<"z", ",", ",", "n", "o", "n", "e", ",", " ", "n", "_", "c">>) }

\* the filter and the configuration loader are not part of these behaviours
LibraryIdle ==
    /\ filterConfig = [enabled |-> TRUE, maxResponseChars |-> Num(0),
                       summarizeThreshold |-> Num(0), forceLlmFilter |-> FALSE]
    /\ llmClient = FALSE
    /\ filterCall = NoCall
    /\ env = EmptyEnv
    /\ cfgPhase = "idle"
    /\ config = NoConfig
    /\ validation = NoValidation

\* new GatewayServer(config), with no request received
Constructed ==
    /\ utcpClient = 0
    /\ clients = << >>
    /\ capabilitySummary = << >>
    /\ toolSummaries = << >>
    /\ toolFullDefs = NoDefs
    /\ call = NoOperation
    /\ history = NoHistory
    /\ process = "constructed"
    /\ LibraryIdle

\* a gateway whose requests arrive one after the other: one call is in
\* flight at a time
CallsInit ==
    /\ srvConfig \in SrvConfigs
    /\ catalog \in Catalogs
    /\ callers = [c \in {1} |-> Idle(Unserved)]
    /\ Constructed

\* the CallToolRequests 'tool_info', 'search_tools' and 'list_tools'
CallRequests ==
    {ToolInfoRequest(toolName) : toolName \in ToolNames}
    \cup {SearchToolsRequest(query, limitArg) : query \in Queries, limitArg \in Limits}
    \cup {ListToolsRequest}

\* the steps of toolInfo, searchTools and listTools after getUtcpClient
Operates(c) ==
    \/ \E llm \in RouterAnswers : RankingAnswered(c, llm)
    \/ \E lex \in LexicalOutcomes : LexicalSearched(c, lex)
    \/ GotTool(c)
    \/ GotTools(c)
    \/ Listed(c)

CallsNext ==
    \/ \E request \in CallRequests : Start(1, request)
    \/ Initializes(1)
    \/ Operates(1)

SpecCalls == CallsInit /\ [][CallsNext]_vars

---------------------------------------------------------------------------
(* The gateway advertising its operations and running tool chains *)

\* config.filter: the filter on or off, forced or not, and budgets below,
\* between and above the lengths of the envelopes
ChainFilters ==
    { [ enabled |-> enabled, maxResponseChars |-> Num(budget[1]),
        summarizeThreshold |-> Num(budget[2]), forceLlmFilter |-> force ] :
        enabled \in BOOLEAN, force \in BOOLEAN,
        budget \in {<<10, 50>>, <<40, 51>>, <<1000, 5000>>} }

\* The configurations of a server that runs tool chains: one provider, no router
ChainConfigs ==
    { [ mcps   |-> <<[name |-> ProviderM]>>,
        router |-> [enabled |-> FALSE],
        llm    |-> [apiKey |-> apiKey],
        filter |-> f ] :
        apiKey \in ApiKeys, f \in ChainFilters }

Codes == {<<"c">>}

\* What the code of a chain returns and logs: nothing, numbers, strings with
\* units that JSON escapes, and an object holding an array
ChainOutcomes ==
    { ChainThrows,
      ChainReturns(JsonUndefined, << >>),
      ChainReturns(JsonNumber(7), << >>),
      ChainReturns(JsonNumber(-1), << >>),
      ChainReturns(JsonString(<<"a", "\"", "b">>), <<<<"l">>>>),
      ChainReturns(JsonString(<<"a", "\t", "u001B">>), <<<<"\r", "uD800">>>>),
      ChainReturns(JsonObjectOf(<<Member(<<"a">>,
                       JsonArrayOf(<<JsonBoolean(TRUE), JsonDecimal(FALSE, <<1, 5>>, 1),
                                     JsonUndefined>>))>>), << >>) }

\* args?.max_output_size as number: missing, or whatever number the caller
\* sent, a negative one included (the handler validates nothing)
MaxOutputSizes == {NoNumber, Number(-1), Number(0), Number(35), Number(50)}
FilterFlags == {NoFlag, Flag(FALSE), Flag(TRUE)}
PurposeArgs == {Undef, Def(<< >>), Def(<<"p">>)}

\* What the completion API answers to a summarization request; LlmPending
\* stands for no answer, when the filter sent no request
ShaperAnswers == {LlmPending, LlmThrows, LlmNull, LlmContent(<<"s">>)}

ChainInit ==
    /\ srvConfig \in ChainConfigs
    /\ catalog = TwoProviders
    /\ callers = [c \in {1} |-> Idle(Unserved)]
    /\ Constructed

\* the CallToolRequests 'call_tool_chain'
ChainRequests ==
    { CallToolChainRequest(code, maxArg, filterArg, purposeArg) :
        code \in Codes, maxArg \in MaxOutputSizes, filterArg \in FilterFlags,
        purposeArg \in PurposeArgs }

\* Every request is served: a chain follows a chain, also one whose
\* initialization was rejected
ChainNext ==
    \/ ListOperations
    \/ \E request \in ChainRequests : Start(1, request)
    \/ Initializes(1)
    \/ \E chain \in ChainOutcomes : ChainReturned(1, chain)
    \/ \E llm \in ShaperAnswers : Shaped(1, llm)

SpecChain == ChainInit /\ [][ChainNext]_vars

---------------------------------------------------------------------------
(* The CallToolRequest handler dispatching every kind of call *)

\* names that are none of the four operations
UnknownNames == {"delete_tool"}

\* tool_info, search_tools and list_tools as in SpecCalls, a name of no
\* operation, and call_tool_chain with the code as its only argument
DispatchRequests ==
    CallRequests
    \cup {UnknownRequest(name) : name \in UnknownNames}
    \cup {CallToolChainRequest(code, NoNumber, NoFlag, Undef) : code \in Codes}

DispatchNext ==
    \/ \E request \in DispatchRequests : Start(1, request)
    \/ Initializes(1)
    \/ Operates(1)
    \/ \E chain \in ChainOutcomes : ChainReturned(1, chain)

SpecDispatch == CallsInit /\ [][DispatchNext]_vars

---------------------------------------------------------------------------
(* The gateway serving calls that overlap *)

\* run() and one request of each operation
OverlapRequests ==
    { RunRequest, ListToolsRequest,
      SearchToolsRequest(<<"q">>, NoNumber),
      ToolInfoRequest(<<"z">>),
      CallToolChainRequest(<<"c">>, NoNumber, Flag(TRUE), Undef) }

\* the answers and outcomes the overlapping calls are given
OverlapAnswers == {LlmThrows, LlmContent(<<"m", "_", "a", "_", "b">>)}
OverlapSearches == {"first"}
OverlapChains == {ChainReturns(JsonNumber(7), << >>)}
OverlapShapes == {LlmPending}

\* new GatewayServer(config)
Init ==
    /\ srvConfig \in {c \in SrvConfigs : c.router.enabled /\ c.llm.apiKey # << >>}
    /\ catalog = TwoProviders
    /\ callers = [c \in Callers |-> Idle(Unserved)]
    /\ Constructed

Next ==
    \/ \E c \in Callers, request \in OverlapRequests : Start(c, request)
    \/ \E c \in Callers : Initializes(c)
    \/ \E c \in Callers : Connected(c)
    \/ \E c \in Callers, llm \in OverlapAnswers : RankingAnswered(c, llm)
    \/ \E c \in Callers, lex \in OverlapSearches : LexicalSearched(c, lex)
    \/ \E c \in Callers : GotTool(c)
    \/ \E c \in Callers : GotTools(c)
    \/ \E c \in Callers : Listed(c)
    \/ \E c \in Callers, chain \in OverlapChains : ChainReturned(c, chain)
    \/ \E c \in Callers, llm \in OverlapShapes : Shaped(c, llm)

Spec == Init /\ [][Next]_vars

---------------------------------------------------------------------------
(* Claims about LlmFilter, checked under SpecFilter *)

\* the completion API was called during the last filter call
ApiCalled == filterCall.made /\ Len(filterCall.out.requests) > 0

\* the completion-API call failed or gave no content
ApiFailed ==
    filterCall.llm.kind = "throws" \/ ContentOrEmpty(filterCall.llm) = << >>

\* the first n characters of a content: none when n is negative or NaN
FirstChars(content, n) ==
    IF n.nan \/ n.val < 0 THEN << >>
    ELSE SubSeq(content, 1, Min(n.val, Len(content)))

\* The truncation rule of the specification: the content itself up to max
\* characters; beyond, its first max characters and the marker stating the
\* original length.
TruncationRule(max, content) ==
    IF LessEq(Num(Len(content)), max)
    THEN content
    ELSE FirstChars(content, max) \o TruncateMarker(Len(content))

\* a + b on numbers: NaN when either is NaN
Plus(a, b) == IF a.nan \/ b.nan THEN NaN ELSE Num(a.val + b.val)

\* the text is a prefix of the content followed by the marker stating the
\* length of the content
Truncated(content, text) ==
    \E k \in 0..Len(content) :
        text = SubSeq(content, 1, k) \o TruncateMarker(Len(content))

\* C2: whenever the filter called the completion API and the call threw or
\* gave empty content, the filter resolves (no error) to the truncation-rule
\* result of the original content, of length at most maxResponseChars plus
\* the marker length; under every policy, forceLlmFilter included.
C2_FailureFallsBackToTruncation ==
    (ApiCalled /\ ApiFailed) =>
        /\ ~filterCall.out.threw
        /\ filterCall.out.text =
               TruncationRule(filterConfig.maxResponseChars, filterCall.content)
        /\ LessEq(Num(Len(filterCall.out.text)),
                  Plus(filterConfig.maxResponseChars,
                       Num(Len(TruncateMarker(Len(filterCall.content))))))

\* C3 as stated: whenever forceLlmFilter is set the filter calls the
\* completion API, whatever the enable flag (a client exists, so that a call
\* can be made at all).
C3_ForceSummarizesEvenWhenDisabled ==
    (filterCall.made /\ filterConfig.forceLlmFilter /\ llmClient) => ApiCalled

\* C3 amended: the disabled / no-client check comes first.  With
\* forceLlmFilter set, filtering enabled and a client present the filter calls
\* the completion API for a content of any length; with filtering disabled or
\* no client it makes no call and returns the content itself or the content
\* truncated and marked.
C3_ForceSummarizesWhenEnabled ==
    (filterCall.made /\ filterConfig.forceLlmFilter) =>
        IF filterConfig.enabled /\ llmClient
        THEN ApiCalled
        ELSE /\ ~ApiCalled
             /\ \/ filterCall.out.text = filterCall.content
                \/ Truncated(filterCall.content, filterCall.out.text)

\* a forced summarization of a content within the budget
C3_Witness ==
    /\ ApiCalled
    /\ filterConfig.forceLlmFilter
    /\ LessEq(Num(Len(filterCall.content)), filterConfig.maxResponseChars)
    /\ filterCall.out.text = filterCall.llm.content
    /\ filterCall.out.text # filterCall.content

\* C4: a content no longer than maxResponseChars, with forceLlmFilter off, is
\* returned unchanged and without a completion-API call, whatever the enable
\* flag, the client and summarizeThreshold.
C4_IdentityBelowThreshold ==
    ( /\ filterCall.made
      /\ ~filterConfig.forceLlmFilter
      /\ LessEq(Num(Len(filterCall.content)), filterConfig.maxResponseChars) ) =>
        /\ filterCall.out.text = filterCall.content
        /\ ~ApiCalled
        /\ ~filterCall.out.threw

\* a content of exactly maxResponseChars characters, at or above
\* summarizeThreshold, with filtering enabled and a client
C4_Witness ==
    /\ filterCall.made
    /\ ~filterConfig.forceLlmFilter
    /\ filterConfig.enabled /\ llmClient
    /\ Num(Len(filterCall.content)) = filterConfig.maxResponseChars
    /\ LessEq(filterConfig.summarizeThreshold, Num(Len(filterCall.content)))
    /\ Len(filterCall.content) > 0
    /\ filterCall.out.text = filterCall.content

\* C5: with filtering disabled or no client (forceLlmFilter off) the filter
\* never calls the completion API; it returns the content unchanged up to
\* maxResponseChars characters and otherwise the first maxResponseChars
\* characters followed by the marker stating the original length.
C5_NoCredentialTruncates ==
    ( /\ filterCall.made
      /\ ~filterConfig.forceLlmFilter
      /\ (~filterConfig.enabled \/ ~llmClient) ) =>
        /\ ~ApiCalled
        /\ filterCall.out.text =
               IF LessEq(Num(Len(filterCall.content)),
                         filterConfig.maxResponseChars)
               THEN filterCall.content
               ELSE FirstChars(filterCall.content,
                               filterConfig.maxResponseChars)
                    \o TruncateMarkerHead
                    \o NumberToString(Len(filterCall.content))
                    \o MarkerTail

\* the filter was called a second time, on the text its first call returned
FilteredAgain == filterCall.made /\ "first" \in DOMAIN filterCall

\* C15: truncating a truncated and marked text again with the same
\* maxResponseChars keeps the payload before the marker: for a content C longer
\* than maxResponseChars sent twice through the truncation (filtering disabled
\* or no client), the first maxResponseChars characters of the second result
\* are those of the first result, which are those of C.
C15_TruncateTwiceKeepsPayload ==
    ( /\ FilteredAgain
      /\ ~filterConfig.enabled \/ ~llmClient
      /\ Greater(Num(Len(filterCall.first)), filterConfig.maxResponseChars) ) =>
        LET max == filterConfig.maxResponseChars
        IN  /\ filterCall.content = truncate(filterConfig, filterCall.first)
            /\ filterCall.out.text = truncate(filterConfig, filterCall.content)
            /\ Greater(Num(Len(filterCall.out.text)), max)
            /\ FirstChars(filterCall.out.text, max)
                 = FirstChars(filterCall.content, max)
            /\ FirstChars(filterCall.content, max)
                 = FirstChars(filterCall.first, max)

\* a content of four characters truncated to three and the result truncated
\* again: the second marker states the length of the first result
C15_Witness ==
    /\ FilteredAgain
    /\ ~filterConfig.enabled
    /\ filterConfig.maxResponseChars = Num(3)
    /\ filterCall.first = <<"a", "b", "b", "a">>
    /\ filterCall.content = <<"a", "b", "b">> \o TruncateMarker(4)
    /\ filterCall.out.text = <<"a", "b", "b">> \o TruncateMarker(3 + Len(TruncateMarker(4)))

\* C20: with filtering enabled, a client and forceLlmFilter off, a content
\* longer than maxResponseChars is truncated without a completion-API call
\* when it is shorter than summarizeThreshold, and is sent to the completion
\* API when its length is summarizeThreshold or more.
C20_ThresholdSplitsTruncateAndSummarize ==
    ( /\ filterCall.made
      /\ filterConfig.enabled /\ llmClient
      /\ ~filterConfig.forceLlmFilter
      /\ Greater(Num(Len(filterCall.content)),
                 filterConfig.maxResponseChars) ) =>
        /\ Less(Num(Len(filterCall.content)), filterConfig.summarizeThreshold)
              => /\ Len(filterCall.out.requests) = 0
                 /\ Truncated(filterCall.content, filterCall.out.text)
                 /\ filterConfig.maxResponseChars.val >= 0
                       => filterCall.out.text =
                              TruncationRule(filterConfig.maxResponseChars,
                                             filterCall.content)
        /\ LessEq(filterConfig.summarizeThreshold, Num(Len(filterCall.content)))
              => /\ Len(filterCall.out.requests) = 1
                 /\ filterCall.out.requests[1].input = filterCall.content

\* a content exactly summarizeThreshold long and longer than maxResponseChars
\* was summarized by the completion API
C20_Witness ==
    /\ filterCall.made
    /\ "first" \notin DOMAIN filterCall
    /\ filterConfig.enabled /\ llmClient
    /\ ~filterConfig.forceLlmFilter
    /\ Num(Len(filterCall.content)) = filterConfig.summarizeThreshold
    /\ Greater(Num(Len(filterCall.content)), filterConfig.maxResponseChars)
    /\ filterConfig.maxResponseChars.val >= 0
    /\ filterCall.llm = LlmContent(<<"s">>)
    /\ Len(filterCall.out.requests) = 1
    /\ filterCall.out.text = <<"s">>

\* filtering enabled with a client, forceLlmFilter off, and summarizeThreshold
\* above maxResponseChars
ThresholdAboveBudget ==
    /\ filterCall.made
    /\ filterConfig.enabled /\ llmClient
    /\ ~filterConfig.forceLlmFilter
    /\ Greater(filterConfig.summarizeThreshold, filterConfig.maxResponseChars)

\* C21, as stated: when summarizeThreshold is above maxResponseChars (filtering
\* enabled, a client, forceLlmFilter off) the filter never calls the
\* completion API, whatever the length of the content.
C21_ThresholdAboveBudgetNeverSummarizes ==
    ThresholdAboveBudget => ~ApiCalled

\* C21, amended: when summarizeThreshold is above maxResponseChars the filter
\* still summarizes: it calls the completion API exactly for the contents of
\* length summarizeThreshold or more, returns the contents up to
\* maxResponseChars unchanged and truncates those in between.
C21_ThresholdAboveBudgetSummarizesLong ==
    ThresholdAboveBudget =>
        /\ ApiCalled <=>
               LessEq(filterConfig.summarizeThreshold,
                      Num(Len(filterCall.content)))
        /\ ~ApiCalled =>
               \/ /\ LessEq(Num(Len(filterCall.content)),
                            filterConfig.maxResponseChars)
                  /\ filterCall.out.text = filterCall.content
               \/ /\ Greater(Num(Len(filterCall.content)),
                             filterConfig.maxResponseChars)
                  /\ Truncated(filterCall.content, filterCall.out.text)
                  /\ filterConfig.maxResponseChars.val >= 0
                        => filterCall.out.text =
                               TruncationRule(filterConfig.maxResponseChars,
                                              filterCall.content)

\* a content as long as a summarizeThreshold two above maxResponseChars was
\* sent to the completion API
C21_Witness ==
    /\ ThresholdAboveBudget
    /\ "first" \notin DOMAIN filterCall
    /\ filterConfig.summarizeThreshold
           = Plus(filterConfig.maxResponseChars, Num(2))
    /\ filterConfig.maxResponseChars.val >= 0
    /\ Num(Len(filterCall.content)) = filterConfig.summarizeThreshold
    /\ ApiCalled
    /\ filterCall.llm = LlmContent(<<"s">>)
    /\ filterCall.out.text = <<"s">>

---------------------------------------------------------------------------
(* Claims about the configuration, checked under SpecConfig *)

\* the indexes whose name variable holds a non-empty value
IndexedNames ==
    {i \in 1..MaxNumbered :
        /\ NumberedKey(i, "NAME") \in DOMAIN env
        /\ env[NumberedKey(i, "NAME")] # << >>}

\* the position of index i among the indexes with a name
IndexedRank(i) == Cardinality({k \in IndexedNames : k <= i})

DelimitedKeys ==
    {"MCP_URL", "MCP_NAME", "MCP_TRANSPORT", "MCP_AUTH_TYPE", "MCP_AUTH_KEY",
     "MCP_AUTH_TOKEN", "MCP_COMMAND", "MCP_ARGS", "MCP_ENV_JSON"}

\* the environment with every delimited variable unset
WithoutDelimited(e) == [k \in (DOMAIN e) \ DelimitedKeys |-> e[k]]

\* the entries of MCP_NAME, and the positions (0-based) that hold a name
DelimitedNames ==
    IF "MCP_NAME" \in DOMAIN env THEN split(env["MCP_NAME"], ";") ELSE << >>
DelimitedPositions ==
    {p \in 0..(Len(DelimitedNames) - 1) : DelimitedNames[p + 1] # << >>}
DelimitedRank(p) == Cardinality({q \in DelimitedPositions : q <= p})

\* C6: if an indexed provider name (MCP_<N>_NAME, N in 1..20) is set to a
\* non-empty value, the resolved provider list holds exactly one provider per
\* such index, built from that index's variables, and is the list the same
\* environment gives with every delimited variable removed; the delimited
\* values supply the providers only when no indexed name is set.
C6_IndexedShapeExcludesDelimited ==
    config.loaded =>
        IF IndexedNames # {}
        THEN /\ Len(config.value.mcps) = Cardinality(IndexedNames)
             /\ \A i \in IndexedNames :
                  LET mcp == config.value.mcps[IndexedRank(i)]
                  IN  /\ mcp.name = env[NumberedKey(i, "NAME")]
                      /\ mcp.url = EnvGet(env, NumberedKey(i, "URL"))
                      /\ mcp.command = EnvGet(env, NumberedKey(i, "COMMAND"))
                      /\ mcp.authKey = Undef
             /\ config.value.mcps = loadConfig(WithoutDelimited(env)).mcps
        ELSE /\ Len(config.value.mcps) = Cardinality(DelimitedPositions)
             /\ \A p \in DelimitedPositions :
                  config.value.mcps[DelimitedRank(p)].name = DelimitedNames[p + 1]

\* an indexed provider with neither URL nor command beside a complete
\* delimited provider: only the indexed one is resolved, and validation fails
C6_Witness ==
    /\ cfgPhase = "validated"
    /\ IndexedNames = {1}
    /\ NumberedKey(1, "URL") \notin DOMAIN env
    /\ "MCP_NAME" \in DOMAIN env /\ env["MCP_NAME"] = <<"d">>
    /\ "MCP_URL" \in DOMAIN env /\ env["MCP_URL"] = <<"v">>
    /\ Len(config.value.mcps) = 1
    /\ config.value.mcps[1].name = <<"a">>
    /\ validation.result.threw

\* the providers that validateConfig rejects
BadProviders(c) ==
    {j \in 1..Len(c.mcps) :
        \/ c.mcps[j].transport = "stdio" /\ ~Truthy(c.mcps[j].command)
        \/ c.mcps[j].transport = "http" /\ ~Truthy(c.mcps[j].url)}

\* C7 as stated: validateConfig throws whenever the resolved configuration
\* describes no provider.
C7_FailsWithoutProvider ==
    (validation.done /\ Len(config.value.mcps) = 0) => validation.result.threw

\* C7 amended: validateConfig throws exactly when the configuration holds
\* neither a provider nor an OpenAPI source, or an http provider has no URL,
\* or a stdio provider has no command; a missing credential with filtering
\* enabled is a warning of a validation that succeeds.
C7_ValidateFailsExactlyWhen ==
    validation.done =>
        LET c == config.value
            r == validation.result
        IN  /\ r.threw <=> \/ (Len(c.mcps) = 0 /\ Len(c.openapis) = 0)
                           \/ BadProviders(c) # {}
            /\ ~r.threw =>
                 ("no api key" \in r.warnings
                    <=> (c.filter.enabled /\ ~Truthy(c.llm.apiKey)))
            /\ (r.threw /\ r.error = "http without url") =>
                 \E j \in BadProviders(c) : c.mcps[j].transport = "http"
            /\ (r.threw /\ r.error = "stdio without command") =>
                 \E j \in BadProviders(c) : c.mcps[j].transport = "stdio"

\* a provider declared stdio with no command is rejected
C7_Witness ==
    /\ validation.done
    /\ validation.result.threw
    /\ validation.result.error = "stdio without command"
    /\ Len(config.value.mcps) = 1
    /\ config.value.mcps[1].url # Undef

\* The overrides the specification gives for an environment-override text:
\* none when the text is absent, empty, no JSON or no JSON object; for an
\* object, its string-valued entries.
ExpectedOverrides(text) ==
    CASE ~Truthy(text)               -> Undef
      [] text.val = TextNonString    -> Def([k \in {} |-> << >>])
      [] text.val = TextAllString    -> Def([k \in {"A"} |-> <<"x">>])
      [] text.val = TextMixed        -> Def([k \in {"A"} |-> <<"x">>])
      [] text.val = TextEmptyObject  -> Def([k \in {} |-> << >>])
      [] text.val = TextSemicolon    -> Def([k \in {"A"} |-> <<"x", ";", "y">>])
      [] text.val \in {TextArray, TextNull, TextZero, TextInvalid,
                       TextHalfLeft, TextHalfRight} -> Undef

\* the entries of MCP_ENV_JSON
DelimitedEnvJsons ==
    IF "MCP_ENV_JSON" \in DOMAIN env
    THEN split(env["MCP_ENV_JSON"], ";") ELSE << >>

\* C8: loading never aborts on an environment-override value and keeps the
\* provider: a value that is no JSON or no JSON object gives the provider
\* without overrides, an object gives exactly its string-valued entries; in
\* the indexed and in the delimited shape.
C8_MalformedOverridesAreDropped ==
    config.loaded =>
        /\ ~config.value.threw
        /\ IF IndexedNames # {}
           THEN /\ Len(config.value.mcps) = Cardinality(IndexedNames)
                /\ \A i \in IndexedNames :
                     config.value.mcps[IndexedRank(i)].env =
                        ExpectedOverrides(EnvGet(env, NumberedKey(i, "ENV_JSON")))
           ELSE /\ Len(config.value.mcps) = Cardinality(DelimitedPositions)
                /\ \A p \in DelimitedPositions :
                     config.value.mcps[DelimitedRank(p)].env =
                        ExpectedOverrides(At(DelimitedEnvJsons, p))

\* delimited shape, two providers: the first with a text that is no JSON, the
\* second with an all-string object
C8_Witness ==
    /\ config.loaded
    /\ IndexedNames = {}
    /\ Len(config.value.mcps) = 2
    /\ DelimitedEnvJsons = <<TextInvalid, TextAllString>>
    /\ config.value.mcps[1].env = Undef
    /\ config.value.mcps[2].env = Def([k \in {"A"} |-> <<"x">>])
    /\ <<"MCP_ENV_JSON", 0, <<"parse failed", "">>>> \in config.value.warnings


\* the configuration was loaded and validateConfig accepted it
Accepted == validation.done /\ ~validation.result.threw

\* C18, as stated: every provider of a configuration that validateConfig
\* accepted has exactly one of url and command populated, the url when its
\* transport is http and the command when it is stdio.
C18_ExactlyOneOfUrlAndCommand ==
    Accepted =>
        \A i \in 1..Len(config.value.mcps) :
            LET mcp == config.value.mcps[i]
            IN  /\ Truthy(mcp.url) # Truthy(mcp.command)
                /\ Truthy(mcp.url) <=> mcp.transport = "http"
                /\ Truthy(mcp.command) <=> mcp.transport = "stdio"

\* C18, amended: every provider of a configuration that validateConfig
\* accepted has the field of its transport populated: an http provider has a
\* url and no command, a stdio provider has a command, and it may have a url
\* as well (a provider given both a url and a command is a stdio provider that
\* keeps its url).
C18_TransportFieldPopulated ==
    Accepted =>
        \A i \in 1..Len(config.value.mcps) :
            LET mcp == config.value.mcps[i]
            IN  /\ mcp.transport \in {"http", "stdio"}
                /\ mcp.transport = "http" =>
                       Truthy(mcp.url) /\ ~Truthy(mcp.command)
                /\ mcp.transport = "stdio" => Truthy(mcp.command)
                /\ Truthy(mcp.command) => mcp.transport = "stdio"

\* an indexed provider given a url and a command was accepted as a stdio
\* provider with both populated
C18_Witness ==
    /\ Accepted
    /\ DOMAIN env = {NumberedKey(1, "NAME"), NumberedKey(1, "URL"),
                     NumberedKey(1, "COMMAND")}
    /\ Len(config.value.mcps) = 1
    /\ config.value.mcps[1].transport = "stdio"
    /\ config.value.mcps[1].url = Def(<<"u">>)
    /\ config.value.mcps[1].command = Def(<<"c">>)

\* the ';'-separated entries of a delimited variable
DelimitedEntries(key) ==
    IF key \in DOMAIN env THEN split(env[key], ";") ELSE << >>

\* C27: in the delimited shape there is one provider for each position of
\* MCP_NAME that holds a non-empty name, in the order of the positions, and
\* the provider of position p is built from the entries at position p of
\* MCP_URL, MCP_COMMAND, MCP_ARGS, MCP_AUTH_TOKEN and MCP_ENV_JSON (undefined
\* where the list is shorter); a position without a name gives no provider and
\* does not shift the positions after it.
C27_DelimitedEntriesAlignByPosition ==
    (config.loaded /\ IndexedNames = {}) =>
        /\ Len(config.value.mcps) = Cardinality(DelimitedPositions)
        /\ \A p \in DelimitedPositions :
             LET mcp == config.value.mcps[DelimitedRank(p)]
                 args == At(DelimitedEntries("MCP_ARGS"), p)
             IN  /\ mcp.name = DelimitedNames[p + 1]
                 /\ mcp.url = At(DelimitedEntries("MCP_URL"), p)
                 /\ mcp.command = At(DelimitedEntries("MCP_COMMAND"), p)
                 /\ mcp.authToken = At(DelimitedEntries("MCP_AUTH_TOKEN"), p)
                 /\ mcp.args = IF args.def THEN Def(split(args.val, ",")) ELSE Undef
                 /\ mcp.env = ExpectedOverrides(At(DelimitedEnvJsons, p))

\* MCP_NAME=";e", MCP_URL="v;w", MCP_COMMAND=";k": the one provider is that of
\* the second position
C27_Witness ==
    /\ config.loaded
    /\ IndexedNames = {}
    /\ DelimitedNames = <<<< >>, <<"e">>>>
    /\ DelimitedEntries("MCP_URL") = <<<<"v">>, <<"w">>>>
    /\ DelimitedEntries("MCP_COMMAND") = <<<< >>, <<"k">>>>
    /\ Len(config.value.mcps) = 1
    /\ config.value.mcps[1].name = <<"e">>
    /\ config.value.mcps[1].url = Def(<<"w">>)
    /\ config.value.mcps[1].command = Def(<<"k">>)

\* the transport the claim gives a provider with this command and this
\* explicit transport value
InferredTransport(command, transport) ==
    IF Truthy(command) THEN "stdio"
    ELSE IF transport = Def(LitStdio) THEN "stdio"
    ELSE "http"

\* C28: in the indexed and in the delimited shape a provider with a command is
\* a stdio provider whatever its transport value says; a provider without a
\* command is a stdio provider when its transport value is "stdio" and an http
\* provider otherwise.
C28_CommandForcesStdio ==
    config.loaded =>
        IF IndexedNames # {}
        THEN \A i \in IndexedNames :
               config.value.mcps[IndexedRank(i)].transport =
                  InferredTransport(EnvGet(env, NumberedKey(i, "COMMAND")),
                                    EnvGet(env, NumberedKey(i, "TRANSPORT")))
        ELSE \A p \in DelimitedPositions :
               config.value.mcps[DelimitedRank(p)].transport =
                  InferredTransport(At(DelimitedEntries("MCP_COMMAND"), p),
                                    At(DelimitedEntries("MCP_TRANSPORT"), p))

\* a delimited provider declared http with a command is a stdio provider
C28_Witness ==
    /\ config.loaded
    /\ IndexedNames = {}
    /\ DelimitedNames = <<<<"d">>>>
    /\ DelimitedEntries("MCP_COMMAND") = <<<<"k">>>>
    /\ DelimitedEntries("MCP_TRANSPORT") = <<LitHttp, LitStdio>>
    /\ Len(config.value.mcps) = 1
    /\ config.value.mcps[1].transport = "stdio"

---------------------------------------------------------------------------
(* Claims about the operations of the gateway, checked under SpecCalls *)

\* the tools registered with the client the server uses
RegisteredTools ==
    IF utcpClient = 0 THEN << >> ELSE getTools(clients[utcpClient], catalog)

\* the tool is looked up by its raw qualified name or by its normalized token
LooksUp(t) ==
    /\ call.op = "tool_info"
    /\ ~call.initThrew
    /\ call.toolName \in {t.name, utcpNameToTsName(t.name)}

\* no other registered tool has a name that normalizes to the token of t
SoleOfToken(t) ==
    \A i \in 1..Len(RegisteredTools) :
        RegisteredTools[i] # t =>
            utcpNameToTsName(RegisteredTools[i].name) # utcpNameToTsName(t.name)

\* C9, as stated: for every registered tool set, also one in which two raw
\* names normalize to the same token, tool_info answers the interface of a
\* registered tool both for its raw name and for its normalized token.
C9_SpellingsResolveAlike ==
    \A i \in 1..Len(RegisteredTools) :
        LooksUp(RegisteredTools[i]) =>
            call.result = InterfaceResult(RegisteredTools[i])

\* C9, amended: tool_info answers the interface of a registered tool both for
\* its raw name and for its normalized token whenever no other registered
\* tool has a name that normalizes to the same token.
C9_SpellingsResolveAlikeWhenSole ==
    \A i \in 1..Len(RegisteredTools) :
        (LooksUp(RegisteredTools[i]) /\ SoleOfToken(RegisteredTools[i])) =>
            call.result = InterfaceResult(RegisteredTools[i])

\* a tool that shares its token with no other is found by its token, which
\* differs from its raw name, among several registered tools
C9_Witness ==
    \E i \in 1..Len(RegisteredTools) :
        LET t == RegisteredTools[i]
        IN  /\ Len(RegisteredTools) > 1
            /\ LooksUp(t)
            /\ SoleOfToken(t)
            /\ call.toolName = utcpNameToTsName(t.name)
            /\ call.toolName # t.name
            /\ call.result = InterfaceResult(t)

\* "none" in any letter case, with white space around it
LitNoneUpper == <<"N", "O", "N", "E">>

IsNoMatchToken(s) ==
    \E lead \in 0..Len(s) :
        /\ lead + 4 <= Len(s)
        /\ \A k \in 1..lead : s[k] \in WhiteSpace
        /\ \A k \in 1..4 : s[lead + k] \in {LitNone[k], LitNoneUpper[k]}
        /\ \A k \in (lead + 5)..Len(s) : s[k] \in WhiteSpace

\* the completion API answered with the no-match token or with no content
NoMatchAnswer(llm) ==
    \/ llm.kind \in {"nochoices", "null"}
    \/ llm.kind = "content" /\ (llm.content = << >> \/ IsNoMatchToken(llm.content))

\* semantic routing is active: it is enabled, there is a credential, and the
\* cached registry is not empty
RoutingActive ==
    /\ srvConfig.router.enabled
    /\ srvConfig.llm.apiKey # << >>
    /\ Len(toolSummaries) > 0

\* C10: when routing is active and the completion API answers "none" (in any
\* letter case, with white space around it) or no content, search_tools
\* returns a result that is no error, with an empty tool list and the
\* no-match message, and it runs no lexical search.
C10_NoMatchIsAnEmptyResult ==
    ( /\ call.op = "search_tools"
      /\ ~call.initThrew
      /\ RoutingActive
      /\ NoMatchAnswer(call.llm) )
    => /\ call.completions = 1
       /\ call.lexical = << >>
       /\ ~call.result.isError
       /\ call.result.tools = << >>
       /\ call.result.message = Def(NoMatchMessage)

\* the completion API answered " NONE" and a line end, and the search returned
\* the empty list with the message
C10_Witness ==
    /\ call.op = "search_tools"
    /\ ~call.initThrew
    /\ RoutingActive
    /\ call.llm = LlmContent(<<" ", "N", "O", "N", "E", "\n">>)
    /\ call.lexical = << >>
    /\ call.result = [isError |-> FALSE, tools |-> << >>,
                      message |-> Def(NoMatchMessage)]


\* C11: when routing is active and the completion request for the ranking
\* rejects, search_tools runs the lexical search once, with the query and the
\* limit of the call, and answers what that search found; an error result is
\* returned only when the lexical search itself rejects.
C11_RankingFailureFallsBackToLexical ==
    ( /\ call.op = "search_tools"
      /\ ~call.initThrew
      /\ RoutingActive
      /\ call.llm.kind = "throws" )
    => /\ call.completions = 1
       /\ call.lexical = <<[query |-> call.query, limit |-> LimitOf(call.limitArg)]>>
       /\ IF call.lex = "throws"
          THEN call.result = ErrorResult("searchTools")
          ELSE call.result =
                 SearchResult(clientSearchTools(clients[utcpClient], catalog, call.query,
                                                LimitOf(call.limitArg), call.lex),
                              Undef)

\* the ranking request rejected, and the search answered the one tool the
\* lexical search found under the limit 1 among several registered tools
C11_Witness ==
    /\ call.op = "search_tools"
    /\ ~call.initThrew
    /\ RoutingActive
    /\ call.llm.kind = "throws"
    /\ call.lex = "first"
    /\ call.limitArg = Number(1)
    /\ Len(RegisteredTools) > 1
    /\ ~call.result.isError
    /\ Len(call.result.tools) = 1
    /\ call.result.tools[1].name = utcpNameToTsName(RegisteredTools[1].name)


\* the name is that of one of the tools: as it is, as the normalized token of
\* a tool, or after normalizing both
NamesATool(tools, toolName) ==
    \E i \in 1..Len(tools) :
        \/ tools[i].name = toolName
        \/ utcpNameToTsName(tools[i].name) = toolName
        \/ utcpNameToTsName(tools[i].name) = utcpNameToTsName(toolName)

\* toolInfo is running in the caller's call, with the client it was given
InToolInfo(c) ==
    /\ callers[c].request.op = "tool_info"
    /\ callers[c].pc \in {"resume", "getTool", "getTools"}

\* the answer before the request of call c was the not-found result of tool_info
AfterNotFound(c) ==
    c.after.op = "tool_info" /\ c.after.isError /\ ~c.after.initThrew

\* C17: a tool_info call for a name that matches no registered tool, neither
\* raw nor normalized, is answered with an error result that names the tool
\* (it is not the handler's catch of a thrown error); no step of toolInfo
\* changes the client, its registry or the cached summaries, the process
\* keeps running, and a tool_info call that follows is served: it finds a
\* registered tool that it names.
C17_NotFoundIsAnErrorResult ==
    [][ /\ ( /\ call'.op = "tool_info"
             /\ ~call'.initThrew
             /\ ~NamesATool(getTools(clients'[utcpClient'], catalog),
                            call'.toolName) ) =>
               /\ call'.result = ToolNotFound(call'.toolName)
               /\ call'.result.isError
               /\ process' = process
        /\ (\E c \in DOMAIN callers : InToolInfo(c)) =>
               UNCHANGED <<utcpClient, clients, capabilitySummary,
                           toolSummaries, toolFullDefs>>
        /\ ( /\ call'.op = "tool_info"
             /\ AfterNotFound(call') ) =>
               /\ ~call'.initThrew
               /\ NamesATool(getTools(clients'[utcpClient'], catalog),
                             call'.toolName) =>
                    \E i \in 1..Len(RegisteredTools) :
                        call'.result = InterfaceResult(RegisteredTools[i])
      ]_vars

\* a name that no registered tool bears, looked up among several registered
\* tools
C17_Witness ==
    /\ call.op = "tool_info"
    /\ ~call.initThrew
    /\ Len(RegisteredTools) > 1
    /\ call.toolName = <<"z">>
    /\ ~NamesATool(RegisteredTools, call.toolName)
    /\ call.result = ToolNotFound(<<"z">>)

\* the tool is looked up under a spelling that differs from its name in
\* letter case at most
LooksUpInAnyCase(t) ==
    /\ call.op = "tool_info"
    /\ ~call.initThrew
    /\ toLowerCase(call.toolName) = toLowerCase(t.name)

Ranked ==
    /\ call.op = "search_tools"
    /\ ~call.initThrew
    /\ RoutingActive
    /\ call.llm.kind # "throws"
    /\ ~NoMatchAnswer(call.llm)

\* the names of the answer: its parts between commas, without the white space
\* around them, the empty ones left out
AnswerNames(text) ==
    LET parts == split(text, ",")
        named(n) == n # << >>
    IN  SelectSeq([i \in 1..Len(parts) |-> trim(parts[i])], named)

\* the name is the normalized token of a registered tool
IsRegisteredToken(n) ==
    \E i \in 1..Len(RegisteredTools) : utcpNameToTsName(RegisteredTools[i].name) = n

\* C22, as stated: the tool list of a search_tools result never has more
\* entries than the limit of the call, on the ranking path and on the lexical
\* path.
C22_AtMostLimitTools ==
    ( /\ call.op = "search_tools"
      /\ ~call.initThrew
      /\ ~call.result.isError ) =>
        Len(call.result.tools) <= LimitOf(call.limitArg)

\* C23: on the ranking path the result is no error and no lexical search is
\* run; every tool of the result is a registered tool, and the tools are, in
\* the order of the answer, those of its comma-separated names which, once
\* trimmed, are the token of a registered tool; empty names and names of no
\* registered tool are left out.
C23_RankedToolsAreRegistered ==
    Ranked =>
        LET tools == call.result.tools
        IN  /\ ~call.result.isError
            /\ call.completions = 1
            /\ call.lexical = << >>
            /\ \A i \in 1..Len(tools) :
                   \E j \in 1..Len(RegisteredTools) :
                       tools[i] = toolEntry(RegisteredTools[j])
            /\ [i \in 1..Len(tools) |-> tools[i].name]
                 = SelectSeq(AnswerNames(call.llm.content), IsRegisteredToken)

\* of the answer "z,,none, n_c" the one registered tool is returned: the
\* unknown name, the empty name and "none" are left out, " n_c" is trimmed
C23_Witness ==
    /\ Ranked
    /\ call.llm = LlmContent(<<"z", ",", ",", "n", "o", "n", "e", ",", " ", "n", "_", "c">>)
    /\ Len(RegisteredTools) > 1
    /\ call.result = [isError |-> FALSE, tools |-> <<toolEntry(ToolOther)>>,
                      message |-> Undef]

\* C24: search_tools calls the completion API only when routing is enabled, a
\* credential is configured and at least one tool summary is cached, and it
\* calls it once then; in every other case it makes no completion-API call and
\* runs the lexical search of the client, once, with the query and the limit
\* of the call.
C24_RankingOnlyWhenRoutingActive ==
    (call.op = "search_tools" /\ ~call.initThrew) =>
        IF RoutingActive
        THEN call.completions = 1
        ELSE /\ call.completions = 0
             /\ call.lexical =
                  <<[query |-> call.query, limit |-> LimitOf(call.limitArg)]>>
             /\ IF call.lex = "throws"
                THEN call.result = ErrorResult("searchTools")
                ELSE /\ ~call.result.isError
                     /\ call.result.message = Undef

\* routing enabled with a credential, but the providers registered expose no
\* tool: the search is lexical
C24_Witness ==
    /\ call.op = "search_tools"
    /\ ~call.initThrew
    /\ srvConfig.router.enabled
    /\ srvConfig.llm.apiKey # << >>
    /\ utcpClient # 0
    /\ clients[utcpClient].manuals # << >>
    /\ toolSummaries = << >>
    /\ call.completions = 0
    /\ Len(call.lexical) = 1
    /\ call.lex = "nothing"
    /\ call.result = [isError |-> FALSE, tools |-> << >>, message |-> Undef]

---------------------------------------------------------------------------
(* Claims about the advertised operations and call_tool_chain, checked under
   SpecChain *)

\* C12: every listing names exactly search_tools, list_tools, tool_info and
\* call_tool_chain; the properties of call_tool_chain hold filter_response
\* exactly when forceLlmFilter is off; and the listing is built from the
\* server as it is at the request (its descriptions end with the capability
\* summary of that moment, or with the placeholder while there is none).  Of
\* the steps that leave a listing as the last answer, those of the
\* ListToolsRequest handler are the ones that leave every caller as it was.
C12_AdvertisedOperations ==
    [][ (call'.op = "tools/list" /\ UNCHANGED callers) =>
          LET tools == call'.result.tools
          IN  /\ [i \in 1..Len(tools) |-> tools[i].name] =
                   <<"search_tools", "list_tools", "tool_info", "call_tool_chain">>
              /\ ("filter_response" \in DOMAIN tools[4].properties)
                   <=> ~srvConfig.filter.forceLlmFilter
              /\ {"code", "timeout", "max_output_size", "purpose"}
                   \subseteq DOMAIN tools[4].properties
              /\ \A i \in 1..2 :
                   tools[i].description[2] =
                     IF capabilitySummary' # << >> THEN capabilitySummary'
                     ELSE NotInitialized
      ]_vars

\* a listing after the providers were registered, under forceLlmFilter: the
\* summary is shown and filter_response is not offered
C12_Witness ==
    /\ call.op = "tools/list"
    /\ utcpClient # 0
    /\ capabilitySummary # << >>
    /\ srvConfig.filter.forceLlmFilter
    /\ call.result.tools[1].description[2] = capabilitySummary
    /\ DOMAIN call.result.tools[4].properties =
         {"code", "timeout", "max_output_size", "purpose"}

\* a call_tool_chain call whose chain returned, and the parts of it
ChainServed ==
    /\ call.op = "call_tool_chain"
    /\ ~call.initThrew
    /\ call.chain.kind = "returns"

ChainEnvelope == stringifyEnvelope(call.chain.result, call.chain.logs)
ChainMaxOutputSize ==
    IF call.maxArg.def THEN call.maxArg.val ELSE DefaultMaxOutputSize
ChainPurpose == IF call.purposeArg.def THEN call.purposeArg.val ELSE << >>
ChainFilterRequested ==
    (call.filterArg.def /\ call.filterArg.val) \/ srvConfig.filter.forceLlmFilter

\* the call answered what the Response Shaper makes of the envelope
ChainShaped ==
    LET out == shape(srvConfig, ChainEnvelope, ChainPurpose, call.llm)
    IN  /\ call.result = TextResult(out.text)
        /\ call.completions = Len(out.requests)

\* the call answered the envelope cut to the maximum output size, with the marker
ChainCut ==
    /\ call.result =
         TextResult(SubSeq(ChainEnvelope, 1, ChainMaxOutputSize) \o MaxOutputMarker)
    /\ call.completions = 0

\* C13, as stated: when the envelope is longer than the maximum output size,
\* the Response Shaper is applied if a purpose was given, and otherwise the
\* envelope is cut to the maximum output size and the marker appended.
C13_OversizeShapedWhenPurpose ==
    (ChainServed /\ Len(ChainEnvelope) > ChainMaxOutputSize) =>
        IF ChainPurpose # << >> THEN ChainShaped ELSE ChainCut

\* C13, amended: when the maximum output size is not negative and the
\* envelope is longer than it, the Response Shaper is applied if a purpose was
\* given and filtering was requested by the caller or is forced by the policy,
\* and otherwise the envelope is cut to its first maximum-output-size
\* characters and the marker appended.
C13_OversizeShapedWhenPurposeAndFilter ==
    (ChainServed /\ ChainMaxOutputSize >= 0
                 /\ Len(ChainEnvelope) > ChainMaxOutputSize) =>
        IF ChainPurpose # << >> /\ ChainFilterRequested THEN ChainShaped ELSE ChainCut

\* A negative maximum output size, which the amended claim leaves aside: every
\* envelope is longer than it, and content.slice(0, maxOutputSize) counts from
\* the end, so that the cut keeps all but the last characters of the envelope.
NegativeSizeCutsFromTheEnd ==
    (ChainServed /\ ChainMaxOutputSize < 0
                 /\ ~(ChainPurpose # << >> /\ ChainFilterRequested)) =>
        /\ call.result =
             TextResult(SubSeq(ChainEnvelope, 1, Len(ChainEnvelope) + ChainMaxOutputSize)
                            \o MaxOutputMarker)
        /\ call.completions = 0

\* an envelope longer than the maximum output size was summarized for the
\* purpose of a caller who asked for filtering
C13_Witness ==
    /\ ChainServed
    /\ Len(ChainEnvelope) > ChainMaxOutputSize
    /\ ChainMaxOutputSize > 0
    /\ call.purposeArg = Def(<<"p">>)
    /\ call.filterArg = Flag(TRUE)
    /\ ~srvConfig.filter.forceLlmFilter
    /\ call.completions = 1
    /\ call.llm = LlmContent(<<"s">>)
    /\ call.result = TextResult(<<"s">>)

\* C14: when the envelope is not longer than the maximum output size, the
\* Response Shaper is applied exactly when the caller set the filter flag or
\* forceLlmFilter is on; otherwise the envelope is returned as it is.
C14_WithinSizeShapedWhenRequested ==
    (ChainServed /\ Len(ChainEnvelope) <= ChainMaxOutputSize) =>
        IF ChainFilterRequested
        THEN ChainShaped
        ELSE call.result = TextResult(ChainEnvelope) /\ call.completions = 0

\* an envelope exactly as long as the maximum output size was summarized
\* because the policy forces it, without the caller's flag or a purpose
C14_Witness ==
    /\ ChainServed
    /\ Len(ChainEnvelope) = ChainMaxOutputSize
    /\ call.filterArg = NoFlag
    /\ call.purposeArg = Undef
    /\ srvConfig.filter.forceLlmFilter
    /\ call.completions = 1
    /\ call.llm = LlmContent(<<"s">>)
    /\ call.result = TextResult(<<"s">>)
    /\ call.result # TextResult(ChainEnvelope)

\* C29, as stated: whenever the envelope is longer than the maximum output
\* size, the text returned is no longer than the maximum output size plus the
\* marker, whatever the filter flag, the purpose and the filter policy.
C29_OutputWithinMaxOutputSize ==
    (ChainServed /\ Len(ChainEnvelope) > ChainMaxOutputSize) =>
        Len(call.result.text) <= ChainMaxOutputSize + Len(MaxOutputMarker)

---------------------------------------------------------------------------
(* Claims about overlapping calls, checked under Spec *)

\* the names of the configured providers
ConfiguredManuals == [i \in 1..Len(srvConfig.mcps) |-> srvConfig.mcps[i].name]

C16_NoServingAfterFailedRegistration ==
    [][ history.failed =>
          \A c \in Callers :
              ( /\ callers[c].pc = "idle"
                /\ callers'[c].pc = "resume" ) =>
                  clients[callers'[c].client].manuals = ConfiguredManuals ]_vars

\* the names of a list of cached summaries
SummaryNamesOf(summaries) == {summaries[i].name : i \in 1..Len(summaries)}

\* the three caches are those of one refresh
CachesOfOneRefresh ==
    /\ SummaryNamesOf(toolSummaries) = DOMAIN toolFullDefs
    /\ capabilitySummary = << >> <=> toolSummaries = << >>

---------------------------------------------------------------------------
(* Claims about initialization in calls that do not overlap, checked under
   SpecCalls *)

\* the caches are those a refresh builds from the tools of the current client
CachesRefreshed ==
    LET summary == updateCapabilitySummary(RegisteredTools)
    IN  /\ capabilitySummary = summary.capabilitySummary
        /\ toolSummaries = summary.toolSummaries
        /\ toolFullDefs = summary.toolFullDefs

\* C26, as stated: when calls do not overlap, the instance is initialized
\* once (one client is created, each configured provider is registered once
\* and the registry is refreshed once); whenever an operation has returned its
\* result one client exists, every configured provider is registered with it
\* in the order of the configuration and the caches are those of a refresh of
\* its tools; and once the registry has been refreshed no step changes the
\* client, its manuals or the caches.
C26_InitializedOnceBeforeFirstResult ==
    /\ [](/\ history.creates <= 1
          /\ history.registrations <= Len(srvConfig.mcps)
          /\ history.refreshes <= 1)
    /\ [](call.op # "none" =>
             /\ utcpClient = 1
             /\ Len(clients) = 1
             /\ clients[1].manuals = ConfiguredManuals
             /\ CachesRefreshed)
    /\ [][history.refreshes >= 1 =>
             UNCHANGED <<utcpClient, clients, capabilitySummary,
                         toolSummaries, toolFullDefs>>]_vars

---------------------------------------------------------------------------
(* Claims about the call handler, checked under SpecDispatch *)

\* the call of this state failed after the client was obtained: its name is no
\* operation, its tool chain rejected (an error of the code or the timeout),
\* or its lexical search rejected
DispatchFailed(c) ==
    \/ c.op = "unknown"
    \/ c.op = "call_tool_chain" /\ ~c.initThrew /\ c.chain.kind = "throws"
    \/ c.op = "search_tools" /\ ~c.initThrew /\ c.lexical # << >> /\ c.lex = "throws"

\* the error the handler reports for the failed call
DispatchError(c) ==
    CASE c.op = "unknown"         -> "Unknown tool"
      [] c.op = "call_tool_chain" -> "callToolChain"
      [] c.op = "search_tools"    -> "searchTools"

\* the operation of the caller's call is running, with the client it was given
InOperation(c) ==
    callers[c].pc \in {"resume", "rank", "lexical", "getTool", "getTools", "list",
                       "chain", "shape"}

\* the answer before the request of call c was the error result of a call that
\* failed while it was dispatched
AfterDispatchFailed(c) ==
    /\ c.after.op \in {"unknown", "call_tool_chain", "search_tools"}
    /\ c.after.isError
    /\ ~c.after.initThrew

\* C30: a call that fails while it is dispatched (a name of no operation, a
\* tool chain that rejects, a lexical search that rejects) is answered with a
\* result flagged isError that carries the error, and the process keeps
\* running; neither the step that answers it nor any step of an operation
\* changes the client, its registry or the caches; and a tool_info call that
\* follows it is served: it finds a registered tool that it names.
C30_FailuresBecomeErrorResults ==
    [][ /\ DispatchFailed(call') =>
               /\ call'.result = ErrorResult(DispatchError(call'))
               /\ call'.result.isError
               /\ process' = process
        /\ ( \/ \E c \in DOMAIN callers : InOperation(c)
             \/ call' # call /\ DispatchFailed(call') ) =>
               UNCHANGED <<utcpClient, clients, capabilitySummary,
                           toolSummaries, toolFullDefs>>
        /\ ( /\ call'.op = "tool_info"
             /\ AfterDispatchFailed(call') ) =>
               /\ call'.after.op # "unknown" => ~call'.initThrew
               /\ ( /\ ~call'.initThrew
                    /\ NamesATool(getTools(clients'[utcpClient'], catalog),
                                  call'.toolName) ) =>
                      \E i \in 1..Len(RegisteredTools) :
                          call'.result = InterfaceResult(RegisteredTools[i])
      ]_vars

\* a tool chain rejected on a server whose registry holds tools
C30_Witness ==
    /\ call.op = "call_tool_chain"
    /\ ~call.initThrew
    /\ call.chain = ChainThrows
    /\ call.result = ErrorResult("callToolChain")
    /\ Len(RegisteredTools) > 1
    /\ Len(toolSummaries) = Len(RegisteredTools)

=============================================================================
